---- MODULE Spec2Model ----
(***************************************************************************)
(* KPI engine of AI-Sales-Data-Analyst: catalog, column matching,          *)
(* dependency ordering, formula evaluation and per-period calculation.     *)
(*                                                                         *)
(* Python dicts are modelled as sequences of [k, v] entries with unique    *)
(* keys, in insertion order.  A call that can raise returns a record       *)
(* [raised, value, error].                                                 *)
(***************************************************************************)
EXTENDS Integers, Sequences, FiniteSets, TLC

VARIABLES
    pc,            \* position of the run: which operation acts next
    kpis,          \* the KPI catalog (combined_kpis): dict name -> definition
    dataset,       \* the caller's DataFrame
    llm_answer,    \* what llm_intelligent_column_mapping returned
    detected_kpis, \* the status dict match_kpis returned
    outcome,       \* what the last operation returned or raised
    order_used,    \* the dependency order the calculation used
    calculated_kpis,  \* what the calculation returned (state['calculated_kpis'])
    state_error,   \* state['error'] of the agent
    evaluations,   \* the <<period, name>> whose formula reached eval
    executions,    \* the <<period, name>> whose formula performed an access
    custom_kpi,    \* what CustomKPICalculator.calculate_kpi returned
    call,          \* the arguments of a single function call under study
    embedding_model,  \* the module global _embedding_model
    callers,       \* each thread inside get_embedding_model: position and local
    constructions  \* the SentenceTransformer instances constructed so far

\* what the calculation stage writes
calcVars == <<order_used, calculated_kpis, state_error, evaluations, executions,
              custom_kpi>>

\* what single function calls and the embedding threads write
unitVars == <<call, embedding_model, callers, constructions>>

vars == <<pc, kpis, dataset, llm_answer, detected_kpis, outcome, calcVars,
          unitVars>>

(***************************************************************************)
(* Bounds of the model.                                                    *)
(***************************************************************************)
NumKpis == 3        \* KPI definitions in a catalog
MaxDecls == 3       \* dependency and column entries declared in a catalog, in total

(***************************************************************************)
(* Text.  A string is a sequence of one-character strings.                 *)
(***************************************************************************)
LowerChars == <<"a", "b", "c", "d", "e", "f", "g", "h", "i", "j", "k", "l", "m",
                "n", "o", "p", "q", "r", "s", "t", "u", "v", "w", "x", "y", "z">>
UpperChars == <<"A", "B", "C", "D", "E", "F", "G", "H", "I", "J", "K", "L", "M",
                "N", "O", "P", "Q", "R", "S", "T", "U", "V", "W", "X", "Y", "Z">>
Digits == {"0", "1", "2", "3", "4", "5", "6", "7", "8", "9"}

IsLower(c) == \E i \in DOMAIN LowerChars : LowerChars[i] = c
IsUpper(c) == \E i \in DOMAIN UpperChars : UpperChars[i] = c
IsLetter(c) == IsLower(c) \/ IsUpper(c)
ToUpper(c) == IF IsLower(c) THEN UpperChars[CHOOSE i \in DOMAIN LowerChars : LowerChars[i] = c] ELSE c
ToLower(c) == IF IsUpper(c) THEN LowerChars[CHOOSE i \in DOMAIN UpperChars : UpperChars[i] = c] ELSE c

\* str.lower()
Lower(s) == [i \in DOMAIN s |-> ToLower(s[i])]

\* s.startswith(prefix)
StartsWith(s, prefix) ==
    /\ Len(prefix) <= Len(s)
    /\ SubSeq(s, 1, Len(prefix)) = prefix

\* sub in s
Contains(s, sub) ==
    \E i \in 1..(Len(s) - Len(sub) + 1) : SubSeq(s, i, i + Len(sub) - 1) = sub

\* str.title(): a letter is upper-cased after a character that is no letter
\* (or at the start) and lower-cased after a letter
Title(s) ==
    [i \in DOMAIN s |->
        IF i > 1 /\ IsLetter(s[i - 1]) THEN ToLower(s[i]) ELSE ToUpper(s[i])]

\* re.sub(r'(?<!^)(?=[A-Z])', ' ', col): a space before every upper-case letter
\* but the first character
RECURSIVE SplitCamel(_, _)
SplitCamel(s, first) ==
    IF s = <<>> THEN <<>>
    ELSE (IF IsUpper(Head(s)) /\ ~first THEN <<" ", Head(s)>> ELSE <<Head(s)>>)
            \o SplitCamel(Tail(s), FALSE)

\* re.sub(r'\s+', ' ', col).strip()
RECURSIVE CollapseSpaces(_, _)
CollapseSpaces(s, afterSpace) ==
    IF s = <<>> THEN <<>>
    ELSE IF Head(s) = " "
         THEN (IF afterSpace THEN <<>> ELSE <<" ">>) \o CollapseSpaces(Tail(s), TRUE)
         ELSE <<Head(s)>> \o CollapseSpaces(Tail(s), FALSE)

Strip(s) ==
    LET t == CollapseSpaces(s, TRUE)      \* no leading space, runs collapsed
    IN  IF t # <<>> /\ t[Len(t)] = " " THEN SubSeq(t, 1, Len(t) - 1) ELSE t

normalize_column_name(col) ==
    LET spaced == [i \in DOMAIN col |-> IF col[i] \in {"_", "-"} THEN " " ELSE col[i]]
        kept == SelectSeq(spaced, LAMBDA c : IsLetter(c) \/ c \in Digits \/ c = " ")
        split == IF \E i \in DOMAIN kept : kept[i] = " " THEN kept
                 ELSE SplitCamel(kept, TRUE)
    IN  Strip(Title(split))

normalize_columns(columns) == [i \in DOMAIN columns |-> normalize_column_name(columns[i])]

NameTable == << <<"A">>, <<"M", "o", "n", "t", "h", "l", "y", " ", "B">>, <<"C">>,
                <<"D">>, <<"E">>, <<"F">> >>
KpiNames == {NameTable[i] : i \in 1..NumKpis}

(***************************************************************************)
(* dict helpers                                                            *)
(***************************************************************************)
Range(s) == {s[i] : i \in DOMAIN s}
Keys(d) == [i \in DOMAIN d |-> d[i].k]
KeySet(d) == {d[i].k : i \in DOMAIN d}
Has(d, key) == key \in KeySet(d)
Get(d, key) == d[CHOOSE i \in DOMAIN d : d[i].k = key].v
\* d[key] = value: replaces the value of a present key, appends a new key
Put(d, key, value) ==
    IF Has(d, key)
    THEN [i \in DOMAIN d |-> IF d[i].k = key THEN [k |-> key, v |-> value] ELSE d[i]]
    ELSE Append(d, [k |-> key, v |-> value])
\* {k: v for k, v in d.items() if keep(k, v)} for a set of kept keys
\* the value of the one element of a set: the element is computed once, then
\* named, as an assignment to a local does
Only(S) == CHOOSE x \in S : TRUE

Filter(d, kept) == SelectSeq(d, LAMBDA e : e.k \in kept)

Returned(x) == [raised |-> FALSE, value |-> x, error |-> ""]
Raised(msg) == [raised |-> TRUE, value |-> <<>>, error |-> msg]
NoOutcome == [raised |-> FALSE, value |-> <<>>, error |-> "none"]

(***************************************************************************)
(* Dependency Resolver: KPI_Engine.py topological_sort,                    *)
(* build_dependency_graph                                                  *)
(***************************************************************************)
CircularDependency == "Circular dependency detected in KPIs"

\* number of occurrences of x in the sequence s
RECURSIVE Count(_, _)
Count(s, x) ==
    IF s = <<>> THEN 0
    ELSE (IF Head(s) = x THEN 1 ELSE 0) + Count(Tail(s), x)

\* x repeated n times
RECURSIVE Repeat(_, _)
Repeat(x, n) == IF n = 0 THEN <<>> ELSE <<x>> \o Repeat(x, n - 1)

\* reverse_graph[dep]: the nodes that list dep, one entry per listing, in the
\* order the initialisation loop meets them
RECURSIVE ReverseGraph(_, _)
ReverseGraph(graph, dep) ==
    IF graph = <<>> THEN <<>>
    ELSE Repeat(Head(graph).k, Count(Head(graph).v, dep))
            \o ReverseGraph(Tail(graph), dep)

\* indegree after the initialisation loop: one key per node, in node order
InitialIndegree(graph) ==
    [i \in DOMAIN graph |-> [k |-> graph[i].k, v |-> Len(graph[i].v)]]

\* Relax testing the indegree as it was before the decrement
RECURSIVE RelaxTestBefore(_, _, _)
RelaxTestBefore(dependents, indegree, queue) ==
    IF dependents = <<>> THEN [indegree |-> indegree, queue |-> queue]
    ELSE LET dependent == Head(dependents)
             degree == Get(indegree, dependent) - 1
         IN  RelaxTestBefore(Tail(dependents),
                   Put(indegree, dependent, degree),
                   IF Get(indegree, dependent) = 0
                   THEN Append(queue, dependent) ELSE queue)

\* the inner for loop: every dependent loses one, and joins the queue at zero
RECURSIVE Relax(_, _, _)
Relax(dependents, indegree, queue) ==
    IF dependents = <<>> THEN [indegree |-> indegree, queue |-> queue]
    ELSE LET dependent == Head(dependents)
             degree == Get(indegree, dependent) - 1
         IN  Relax(Tail(dependents),
                   Put(indegree, dependent, degree),
                   IF degree = 0 THEN Append(queue, dependent) ELSE queue)

\* the while loop
RECURSIVE Drain(_, _, _, _)
Drain(graph, indegree, queue, sorted_order) ==
    IF queue = <<>> THEN sorted_order
    ELSE LET node == Head(queue)
             r == Relax(ReverseGraph(graph, node), indegree, Tail(queue))
         IN  Drain(graph, r.indegree, r.queue, Append(sorted_order, node))

topological_sort(dependency_graph) ==
    LET indegree == InitialIndegree(dependency_graph)
        queue == Keys(SelectSeq(indegree, LAMBDA e : e.v = 0))
        sorted_order == Drain(dependency_graph, indegree, queue, <<>>)
    IN  IF Len(sorted_order) # Len(indegree)
        THEN Raised(CircularDependency)
        ELSE Returned(sorted_order)

\* kpi_data.get("dependencies", [])
GetDependencies(kpi_data) ==
    IF "dependencies" \in DOMAIN kpi_data THEN kpi_data.dependencies ELSE <<>>

build_dependency_graph(kpi_dict) ==
    topological_sort([i \in DOMAIN kpi_dict |->
        [k |-> kpi_dict[i].k, v |-> GetDependencies(kpi_dict[i].v)]])

(***************************************************************************)
(* Datasets.  A DataFrame is [columns, dtypes, rows]: rows[r][c] is the    *)
(* cell of row r in column c.  A cell is an integer: a number in an "int"  *)
(* column, and in an "object" or "datetime" column the day the text or     *)
(* timestamp denotes, NaT when it denotes none.  The calendar has 7-day    *)
(* weeks and 30-day months.                                                *)
(***************************************************************************)
None == <<"<None>">>
NaT == -1
Truthy(x) == x # None /\ x # <<>>

ColumnIndex(df, col) == CHOOSE c \in DOMAIN df.columns : df.columns[c] = col
HasColumn(df, col) == \E c \in DOMAIN df.columns : df.columns[c] = col

\* pd.to_datetime(cell, errors='coerce'): integers are nanoseconds after
\* 1970-01-01, text is parsed, timestamps stay
ToDatetime(dtype, cell) ==
    IF dtype = "int" THEN 0 ELSE cell

\* df[col] = pd.to_datetime(df[col], errors='coerce')
ConvertToDatetime(df, col) ==
    LET c == ColumnIndex(df, col)
    IN  [df EXCEPT
            !.dtypes[c] = "datetime",
            !.rows = [r \in DOMAIN df.rows |->
                        [df.rows[r] EXCEPT ![c] = ToDatetime(df.dtypes[c], @)]]]

DaysPerWeek == 7
DaysPerMonth == 30
PeriodOf(day, period) ==
    IF period = "month" THEN day \div DaysPerMonth ELSE day \div DaysPerWeek

\* has_minimum_time_coverage: the verdict
has_minimum_time_coverage(df, date_col, period, min_periods) ==
    IF ~HasColumn(df, date_col) THEN FALSE
    ELSE LET c == ColumnIndex(df, date_col)
             days == {ToDatetime(df.dtypes[c], df.rows[r][c]) : r \in DOMAIN df.rows} \ {NaT}
         IN  Cardinality({PeriodOf(d, period) : d \in days}) >= min_periods

\* has_minimum_time_coverage: the DataFrame it leaves behind
CoverageConverts(df, date_col) ==
    IF ~HasColumn(df, date_col) THEN df ELSE ConvertToDatetime(df, date_col)

(***************************************************************************)
(* KPI Matching Stage: backend/modules/KPI_Module/KPI_Engine.py            *)
(***************************************************************************)
Status(calculable, matched_columns, kpi_info) ==
    [calculable |-> calculable, matched_columns |-> matched_columns, kpi_info |-> kpi_info]

\* the match of one placeholder of a base KPI: the LLM mapping only
LlmMatch(placeholder, column_names, llm_mapping) ==
    IF llm_mapping # <<>> /\ Has(llm_mapping, placeholder)
    THEN LET llm_match == Get(llm_mapping, placeholder)
         IN  IF Truthy(llm_match) /\ llm_match \in Range(column_names)
             THEN normalize_column_name(llm_match)
             ELSE None
    ELSE None

\* matched_columns of a base KPI, placeholder by placeholder
RECURSIVE BaseMatches(_, _, _, _)
BaseMatches(placeholders, column_names, llm_mapping, matched_columns) ==
    IF placeholders = <<>> THEN matched_columns
    ELSE BaseMatches(Tail(placeholders), column_names, llm_mapping,
            Put(matched_columns, Head(placeholders),
                LlmMatch(Head(placeholders), column_names, llm_mapping)))

\* match_base_kpis with all_found set by any matched placeholder
match_base_kpis_any_found(column_names, base_kpis, llm_mapping) ==
    [i \in DOMAIN base_kpis |->
        LET kpi_info == base_kpis[i].v
            any_found == kpi_info.columns = <<>> \/ \E j \in DOMAIN kpi_info.columns :
                LlmMatch(kpi_info.columns[j], column_names, llm_mapping) # None
        IN  [k |-> base_kpis[i].k,
             v |-> Status(any_found,
                          BaseMatches(kpi_info.columns, column_names, llm_mapping, <<>>),
                          kpi_info)]]

match_base_kpis(column_names, base_kpis, llm_mapping) ==
    [i \in DOMAIN base_kpis |->
        LET kpi_info == base_kpis[i].v
            all_found == \A j \in DOMAIN kpi_info.columns :
                LlmMatch(kpi_info.columns[j], column_names, llm_mapping) # None
        IN  [k |-> base_kpis[i].k,
             v |-> Status(all_found,
                          BaseMatches(kpi_info.columns, column_names, llm_mapping, <<>>),
                          kpi_info)]]

\* DepCalculable testing only that the dependency has a status
DepPresent(base_status, dep) == Has(base_status, dep)

\* base_status.get(dep, {}).get("calculable", False)
DepCalculable(base_status, dep) ==
    Has(base_status, dep) /\ Get(base_status, dep).calculable

\* the pool of a derived KPI: the normalized columns, and for every dependency
\* the column its status binds to the dependency's own name
RECURSIVE DependencyColumns(_, _)
DependencyColumns(dependencies, base_status) ==
    IF dependencies = <<>> THEN <<>>
    ELSE LET dep == Head(dependencies)
             bound == Get(base_status, dep).matched_columns
             matched_base_col == IF Has(bound, dep) THEN Get(bound, dep) ELSE None
         IN  (IF DepCalculable(base_status, dep) /\ Truthy(matched_base_col)
              THEN <<normalize_column_name(matched_base_col)>> ELSE <<>>)
                \o DependencyColumns(Tail(dependencies), base_status)

\* the match of one placeholder of a derived KPI
DerivedMatch(placeholder, base_status, available_columns) ==
    LET binders == {i \in DOMAIN base_status :
                        /\ base_status[i].v.calculable
                        /\ Has(base_status[i].v.matched_columns, placeholder)}
        first == CHOOSE i \in binders : \A j \in binders : i <= j
        normalized_placeholder == normalize_column_name(placeholder)
    IN  IF binders # {} /\ Get(base_status[first].v.matched_columns, placeholder) # None
        THEN Get(base_status[first].v.matched_columns, placeholder)
        ELSE IF normalized_placeholder \in Range(available_columns)
             THEN normalized_placeholder
             ELSE None

RECURSIVE DerivedMatches(_, _, _, _)
DerivedMatches(placeholders, base_status, available_columns, matched_columns) ==
    IF placeholders = <<>> THEN matched_columns
    ELSE DerivedMatches(Tail(placeholders), base_status, available_columns,
            Put(matched_columns, Head(placeholders),
                DerivedMatch(Head(placeholders), base_status, available_columns)))

Monthly == <<"m", "o", "n", "t", "h", "l", "y">>
Weekly == <<"w", "e", "e", "k", "l", "y">>
DateWord == <<"d", "a", "t", "e">>

\* next((v for k, v in matched_columns.items() if "date" in k.lower()), None)
DateMatch(matched_columns) ==
    LET dated == {i \in DOMAIN matched_columns : Contains(Lower(matched_columns[i].k), DateWord)}
    IN  IF dated = {} THEN None
        ELSE matched_columns[CHOOSE i \in dated : \A j \in dated : i <= j].v

\* the time-window gate of a derived KPI: TRUE when it forces all_found to False
TimeWindowFails(kpi_name, matched_columns, df) ==
    /\ StartsWith(Lower(kpi_name), Monthly) \/ StartsWith(Lower(kpi_name), Weekly)
    /\ Truthy(DateMatch(matched_columns))
    /\ HasColumn(df, DateMatch(matched_columns))
    /\ ~has_minimum_time_coverage(df, DateMatch(matched_columns),
            IF Contains(Lower(kpi_name), Monthly) THEN "month" ELSE "week", 2)

\* the DataFrame after the time-window gate of a derived KPI
TimeWindowConverts(kpi_name, matched_columns, df) ==
    IF /\ StartsWith(Lower(kpi_name), Monthly) \/ StartsWith(Lower(kpi_name), Weekly)
       /\ Truthy(DateMatch(matched_columns))
       /\ HasColumn(df, DateMatch(matched_columns))
    THEN CoverageConverts(df, DateMatch(matched_columns))
    ELSE df

\* the status of one derived KPI, before the final filter
DerivedStatus(kpi_name, kpi_info, column_names, base_status, df) ==
    IF \A j \in DOMAIN kpi_info.dependencies :
            DepCalculable(base_status, kpi_info.dependencies[j])
    THEN LET available_columns ==
                normalize_columns(column_names)
                    \o DependencyColumns(kpi_info.dependencies, base_status)
             matched_columns ==
                DerivedMatches(kpi_info.columns, base_status, available_columns, <<>>)
             all_found ==
                /\ \A j \in DOMAIN matched_columns : matched_columns[j].v # None
                /\ ~TimeWindowFails(kpi_name, matched_columns, df)
         IN  Status(all_found, matched_columns, kpi_info)
    ELSE Status(FALSE, <<>>, kpi_info)

\* match_derived_kpis without the final filter on calculable
match_derived_kpis_unfiltered(column_names, derived_kpis, base_status, df) ==
    [i \in DOMAIN derived_kpis |->
        [k |-> derived_kpis[i].k,
         v |-> DerivedStatus(derived_kpis[i].k, derived_kpis[i].v,
                             column_names, base_status, df)]]

match_derived_kpis(column_names, derived_kpis, base_status, df) ==
    LET kpi_status == [i \in DOMAIN derived_kpis |->
            [k |-> derived_kpis[i].k,
             v |-> DerivedStatus(derived_kpis[i].k, derived_kpis[i].v,
                                 column_names, base_status, df)]]
    IN  SelectSeq(kpi_status, LAMBDA e : e.v.calculable)

\* the caller's DataFrame after match_derived_kpis
RECURSIVE DerivedConverts(_, _, _, _)
DerivedConverts(derived_kpis, column_names, base_status, df) ==
    IF derived_kpis = <<>> THEN df
    ELSE LET st == DerivedStatus(Head(derived_kpis).k, Head(derived_kpis).v,
                                 column_names, base_status, df)
         IN  DerivedConverts(Tail(derived_kpis), column_names, base_status,
                IF \A j \in DOMAIN Head(derived_kpis).v.dependencies :
                        DepCalculable(base_status, Head(derived_kpis).v.dependencies[j])
                THEN TimeWindowConverts(Head(derived_kpis).k, st.matched_columns, df)
                ELSE df)

\* {**a, **b}
RECURSIVE Merge(_, _)
Merge(a, b) == IF b = <<>> THEN a ELSE Merge(Put(a, Head(b).k, Head(b).v), Tail(b))

IsBase(kpi_info) == GetDependencies(kpi_info) = <<>>

match_kpis(column_names, combined_kpis, df, llm_mapping) ==
    LET base_kpis == SelectSeq(combined_kpis, LAMBDA e : IsBase(e.v))
        derived_kpis == SelectSeq(combined_kpis, LAMBDA e : ~IsBase(e.v))
        base_status == match_base_kpis(column_names, base_kpis, llm_mapping)
        derived_status == match_derived_kpis(column_names, derived_kpis, base_status, df)
    IN  Merge(base_status, derived_status)

\* the caller's DataFrame after match_kpis
MatchConverts(column_names, combined_kpis, df, llm_mapping) ==
    LET base_kpis == SelectSeq(combined_kpis, LAMBDA e : IsBase(e.v))
        derived_kpis == SelectSeq(combined_kpis, LAMBDA e : ~IsBase(e.v))
        base_status == match_base_kpis(column_names, base_kpis, llm_mapping)
    IN  DerivedConverts(derived_kpis, column_names, base_status, df)

(***************************************************************************)
(* Formulas.  A formula is a sequence of tokens, operands and operators in *)
(* turn: df['name'].sum(), kpis['name'], a literal, or a call that reaches *)
(* a file, a process, an import or reflection.  The operators are * and /, *)
(* evaluated left to right as Python does.                                 *)
(***************************************************************************)
Val(kind, n, np) == [kind |-> kind, n |-> n, np |-> np]
Num(n) == Val("num", n, FALSE)          \* a Python number
NpNum(n) == Val("num", n, TRUE)         \* a numpy number
NaN == Val("nan", 0, TRUE)
Inf == Val("inf", 0, TRUE)
DictVal == Val("dict", 0, FALSE)        \* a result record, a categorical value
StrVal == Val("str", 0, FALSE)
NoneVal == Val("none", 0, FALSE)

Token(t, name, val) == [t |-> t, name |-> name, val |-> val]
DfRef(name) == Token("df", name, NoneVal)
KpiRef(name) == Token("kpi", name, NoneVal)
Literal(val) == Token("lit", <<>>, val)
Times == Token("op", <<"*">>, NoneVal)
Over == Token("op", <<"/">>, NoneVal)
\* via: "builtin" (open, __import__, getattr, ...) or "attribute" (a method of
\* an object the namespace exposes, such as df.to_csv); keyword: the text
\* holds one of import, exec, eval, compile, __, open, file
Access(via, keyword) == Token("access", <<via>>, Val("access", IF keyword THEN 1 ELSE 0, FALSE))

ErrNone == "None"
Ok(v, executed) == [raised |-> FALSE, value |-> v, error |-> ErrNone, executed |-> executed]
Err(msg, executed) == [raised |-> TRUE, value |-> NoneVal, error |-> msg, executed |-> executed]

RECURSIVE SumCells(_, _)
SumCells(rows, c) == IF rows = <<>> THEN 0 ELSE Head(rows)[c] + SumCells(Tail(rows), c)

\* df['name'].sum()
ColumnSum(df, name) ==
    IF ~HasColumn(df, name) THEN Err("KeyError", FALSE)
    ELSE LET c == ColumnIndex(df, name)
         IN  IF df.dtypes[c] = "int" THEN Ok(NpNum(SumCells(df.rows, c)), FALSE)
             ELSE IF df.dtypes[c] = "datetime" THEN Err("TypeError", FALSE)
             ELSE Ok(StrVal, FALSE)

\* the value of one operand; builtins tells whether the namespace has them
Operand(tok, df, kpi_results, builtins) ==
    IF tok.t = "df" THEN ColumnSum(df, tok.name)
    ELSE IF tok.t = "kpi"
         THEN (IF Has(kpi_results, tok.name) THEN Ok(DictVal, FALSE) ELSE Err("KeyError", FALSE))
    ELSE IF tok.t = "lit"
         THEN (IF tok.val.kind \in {"nan", "inf"} THEN Err("NameError", FALSE)
               ELSE Ok(tok.val, FALSE))
    ELSE IF tok.t = "access"
         THEN (IF tok.name = <<"builtin">> /\ ~builtins THEN Err("NameError", FALSE)
               ELSE Ok(Num(0), TRUE))
    ELSE Err("SyntaxError", FALSE)

\* a * b, a / b
Apply(op, a, b) ==
    IF a.kind \in {"dict", "str", "none"} \/ b.kind \in {"dict", "str", "none"}
    THEN Err("TypeError", FALSE)
    ELSE IF a.kind = "nan" \/ b.kind = "nan" THEN Ok(NaN, FALSE)
    ELSE IF a.kind = "inf" \/ b.kind = "inf" THEN Ok(Inf, FALSE)
    ELSE IF op = <<"*">> THEN Ok(Val("num", a.n * b.n, a.np \/ b.np), FALSE)
    ELSE IF b.n # 0 THEN Ok(Val("num", a.n \div b.n, a.np \/ b.np), FALSE)
    ELSE IF ~(a.np \/ b.np) THEN Err("ZeroDivisionError", FALSE)
    ELSE IF a.n = 0 THEN Ok(NaN, FALSE) ELSE Ok(Inf, FALSE)

RECURSIVE EvalRest(_, _, _, _, _)
EvalRest(acc, rest, df, kpi_results, builtins) ==
    IF acc.raised \/ rest = <<>> THEN acc
    ELSE IF Len(rest) < 2 \/ rest[1].t # "op" THEN Err("SyntaxError", acc.executed)
    ELSE Only({EvalRest(next, SubSeq(rest, 3, Len(rest)), df, kpi_results, builtins) :
                next \in {Only({
                    IF right.raised THEN Err(right.error, acc.executed \/ right.executed)
                    ELSE Only({IF applied.raised
                               THEN Err(applied.error, acc.executed \/ right.executed)
                               ELSE Ok(applied.value, acc.executed \/ right.executed) :
                            applied \in {Apply(rest[1].name, acc.value, right.value)}}) :
                    right \in {Operand(rest[2], df, kpi_results, builtins)}})}})

\* eval(formula, namespace)
Eval(formula, df, kpi_results, builtins) ==
    IF formula = <<>> THEN Err("SyntaxError", FALSE)
    ELSE Only({EvalRest(first, Tail(formula), df, kpi_results, builtins) :
                first \in {Operand(formula[1], df, kpi_results, builtins)}})

(***************************************************************************)
(* Formula Evaluator: KPI_Engine.py calculate_kpis                         *)
(***************************************************************************)
\* a record that never carries an error
ResultWithoutError(value, success, error) ==
    [value |-> value, success |-> success, error |-> ErrNone]

\* {"value": ..., "success": ..., "error": ...}
Result(value, success, error) == [value |-> value, success |-> success, error |-> error]
NotCalculable == "Not calculable (missing dependencies or columns)"
MissingFormula == "Missing formula"

\* the two re.sub calls for one placeholder: every quoted name spelled like
\* the placeholder, whatever the case, becomes the matched column
ReplacePlaceholder(formula, placeholder, real_col) ==
    [i \in DOMAIN formula |->
        IF formula[i].t \in {"df", "kpi"} /\ Lower(formula[i].name) = Lower(placeholder)
        THEN [formula[i] EXCEPT !.name = real_col]
        ELSE formula[i]]

\* for placeholder, real_col in matched_columns.items()
RECURSIVE SubstitutePlaceholders(_, _)
SubstitutePlaceholders(formula, matched_columns) ==
    IF matched_columns = <<>> THEN formula
    ELSE Only({SubstitutePlaceholders(replaced, Tail(matched_columns)) :
                replaced \in {
                    IF ~Truthy(Head(matched_columns).v) THEN formula
                    ELSE ReplacePlaceholder(formula, Head(matched_columns).k,
                                            Head(matched_columns).v)}})

\* for dep in dependencies: formula.replace(f"kpis['{dep}']", f"({value})")
RECURSIVE SubstituteDependencies(_, _, _)
SubstituteDependencies(formula, dependencies, kpi_results) ==
    IF dependencies = <<>> THEN formula
    ELSE LET dep == Head(dependencies)
         IN  Only({SubstituteDependencies(replaced, Tail(dependencies), kpi_results) :
                replaced \in {
                    IF Has(kpi_results, dep) /\ Get(kpi_results, dep).success
                    THEN [i \in DOMAIN formula |->
                            IF formula[i].t = "kpi" /\ formula[i].name = dep
                            THEN Literal([Get(kpi_results, dep).value EXCEPT !.np = FALSE])
                            ELSE formula[i]]
                    ELSE formula}})

\* the gate without the calculable flag
StatusPresent(available_kpis, kpi_name) == Has(available_kpis, kpi_name)

\* available_kpis.get(kpi_name, {}) and its .get chains
StatusCalculable(available_kpis, kpi_name) ==
    Has(available_kpis, kpi_name) /\ Get(available_kpis, kpi_name).calculable

\* one turn of the for loop: the record of kpi_name and whether eval ran and
\* whether it executed an access
CalculateOne(df, available_kpis, kpi_name, kpi_results) ==
    IF ~StatusCalculable(available_kpis, kpi_name)
    THEN [result |-> Result(NoneVal, FALSE, NotCalculable), evaluated |-> FALSE, executed |-> FALSE]
    ELSE LET kpi_data == Get(available_kpis, kpi_name)
             formula == kpi_data.kpi_info.formula
         IN  IF formula = <<>>
             THEN [result |-> Result(NoneVal, FALSE, MissingFormula),
                   evaluated |-> FALSE, executed |-> FALSE]
             ELSE Only({[result |-> IF r.raised THEN Result(NoneVal, FALSE, r.error)
                                    ELSE Result(r.value, TRUE, ErrNone),
                         evaluated |-> TRUE, executed |-> r.executed] :
                        r \in {Only({Eval(substituted, df, kpi_results, TRUE) :
                            substituted \in {
                                SubstituteDependencies(
                                    SubstitutePlaceholders(formula, kpi_data.matched_columns),
                                    GetDependencies(kpi_data.kpi_info), kpi_results)}})}})

\* kpi_results[kpi_name] = {...}, with what the turn evaluated and executed
Record(acc, kpi_name, one) ==
    [results |-> Put(acc.results, kpi_name, one.result),
     evaluated |-> acc.evaluated \cup (IF one.evaluated THEN {kpi_name} ELSE {}),
     executed |-> acc.executed \cup (IF one.executed THEN {kpi_name} ELSE {})]

\* the loop without the try: the first formula that raises ends it
RECURSIVE CalculateLoopAborting(_, _, _, _)
CalculateLoopAborting(df, available_kpis, dependency_order, acc) ==
    IF dependency_order = <<>> THEN acc
    ELSE Only({IF one.evaluated /\ ~one.result.success THEN acc
               ELSE Only({CalculateLoopAborting(df, available_kpis,
                                                Tail(dependency_order), next) :
                            next \in {Record(acc, Head(dependency_order), one)}}) :
                one \in {CalculateOne(df, available_kpis, Head(dependency_order),
                                      acc.results)}})

\* calculate_kpis: [results, evaluated, executed], the last two the names whose
\* formula reached eval and whose formula executed an access
RECURSIVE CalculateLoop(_, _, _, _)
CalculateLoop(df, available_kpis, dependency_order, acc) ==
    IF dependency_order = <<>> THEN acc
    ELSE Only({CalculateLoop(df, available_kpis, Tail(dependency_order), next) :
                next \in {Record(acc, Head(dependency_order),
                                 CalculateOne(df, available_kpis, Head(dependency_order),
                                              acc.results))}})

calculate_kpis(df, available_kpis, dependency_order) ==
    CalculateLoop(df, available_kpis, dependency_order,
                  [results |-> <<>>, evaluated |-> {}, executed |-> {}])

(***************************************************************************)
(* Temporal Calculator: KPI_Engine.py detect_date_column,                  *)
(* calculate_kpis_temporal; utils/time_period_detection.py                 *)
(***************************************************************************)
TimeWord == <<"t", "i", "m", "e">>
TimestampWord == <<"t", "i", "m", "e", "s", "t", "a", "m", "p">>
PeriodColumn == <<"p", "e", "r", "i", "o", "d">>

DateHinted(col) ==
    \/ Contains(Lower(col), DateWord)
    \/ Contains(Lower(col), TimeWord)
    \/ Contains(Lower(col), TimestampWord)

\* df[col].notna().sum() > len(df) * 0.5
MostlyDates(df, c) ==
    2 * Cardinality({r \in DOMAIN df.rows : df.rows[r][c] # NaT}) > Len(df.rows)

\* the first loop of detect_date_column from column c on: every hinted column
\* met is converted in place, the first one that is mostly dates is returned
RECURSIVE DetectByName(_, _)
DetectByName(df, c) ==
    IF c > Len(df.columns) THEN [col |-> None, df |-> df]
    ELSE IF ~DateHinted(df.columns[c]) THEN DetectByName(df, c + 1)
    ELSE LET converted == ConvertToDatetime(df, df.columns[c])
         IN  IF MostlyDates(converted, c) THEN [col |-> df.columns[c], df |-> converted]
             ELSE DetectByName(converted, c + 1)

detect_date_column(df) ==
    LET named == DetectByName(df, 1)
        typed == {c \in DOMAIN named.df.columns : named.df.dtypes[c] = "datetime"}
    IN  IF named.col # None THEN named
        ELSE IF typed # {}
             THEN [col |-> named.df.columns[CHOOSE c \in typed : \A d \in typed : c <= d],
                   df |-> named.df]
             ELSE named

SpanLimit == 30

ColumnDays(df, date_col) ==
    {df.rows[r][ColumnIndex(df, date_col)] : r \in DOMAIN df.rows} \ {NaT}
Max(set) == CHOOSE x \in set : \A y \in set : y <= x
Min(set) == CHOOSE x \in set : \A y \in set : x <= y

\* the test with the limit itself on the weekly side
determine_period_type_inclusive(df, date_col) ==
    LET total_days == Max(ColumnDays(df, date_col)) - Min(ColumnDays(df, date_col))
    IN  IF total_days <= SpanLimit THEN "WoW" ELSE "MoM"

determine_period_type(df, date_col) ==
    LET total_days == Max(ColumnDays(df, date_col)) - Min(ColumnDays(df, date_col))
    IN  IF total_days < SpanLimit THEN "WoW" ELSE "MoM"

\* r.start_time of the week or month of a day
PeriodStart(day, period_type) ==
    IF day = NaT THEN NaT
    ELSE IF period_type = "WoW" THEN (day \div DaysPerWeek) * DaysPerWeek
    ELSE (day \div DaysPerMonth) * DaysPerMonth

\* a copy of df with the period column added
add_period_column(df, date_col, period_type) ==
    LET c == ColumnIndex(df, date_col)
    IN  [columns |-> Append(df.columns, PeriodColumn),
         dtypes |-> Append(df.dtypes, "datetime"),
         rows |-> [r \in DOMAIN df.rows |->
                    Append(df.rows[r], PeriodStart(df.rows[r][c], period_type))]]

\* sorted(set) of integers
RECURSIVE Sorted(_)
Sorted(set) == IF set = {} THEN <<>> ELSE <<Min(set)>> \o Sorted(set \ {Min(set)})

\* df[df["period"] == period]: NaT equals nothing, itself included
PeriodRows(df, period) ==
    [df EXCEPT !.rows = SelectSeq(df.rows,
                            LAMBDA row : period # NaT /\ row[Len(row)] = period)]

NoDateColumn == "No valid date/time column found."

\* results[str(period)] = kpi_out
RecordPeriod(acc, period, kpi_out) ==
    [results |-> Put(acc.results, period, kpi_out.results),
     evaluated |-> acc.evaluated \cup {<<period, n>> : n \in kpi_out.evaluated},
     executed |-> acc.executed \cup {<<period, n>> : n \in kpi_out.executed}]

\* the for loop over the periods
RECURSIVE TemporalLoop(_, _, _, _, _)
TemporalLoop(df, available_kpis, dependency_order, periods, acc) ==
    IF periods = <<>> THEN acc
    ELSE Only({TemporalLoop(df, available_kpis, dependency_order, Tail(periods), next) :
                next \in {Only({
                    RecordPeriod(acc, Head(periods),
                                 calculate_kpis(df_period, available_kpis, dependency_order)) :
                    df_period \in {PeriodRows(df, Head(periods))}})}})

\* the part of calculate_kpis_temporal after a date column was detected
CalculatePeriods(detected, available_kpis, dependency_order) ==
    Only({Only({
        Only({[error |-> ErrNone, results |-> looped.results,
               meta |-> [period_type |-> period_type, date_col |-> detected.col],
               df |-> detected.df, evaluated |-> looped.evaluated,
               executed |-> looped.executed] :
            looped \in {TemporalLoop(with_period, available_kpis, dependency_order,
                            Sorted({with_period.rows[r][Len(with_period.columns)] :
                                        r \in DOMAIN with_period.rows}),
                            [results |-> <<>>, evaluated |-> {}, executed |-> {}])}}) :
        with_period \in {add_period_column(detected.df, detected.col, period_type)}}) :
    period_type \in {determine_period_type(detected.df, detected.col)}})

\* calculate_kpis_temporal: what it returns ([error, results, meta]), the caller's
\* DataFrame as it leaves it, and which formulas were evaluated in which period
calculate_kpis_temporal(df, available_kpis, dependency_order) ==
    Only({IF ~Truthy(detected.col)
          THEN [error |-> NoDateColumn, results |-> <<>>,
                meta |-> [period_type |-> "None", date_col |-> None],
                df |-> detected.df, evaluated |-> {}, executed |-> {}]
          ELSE CalculatePeriods(detected, available_kpis, dependency_order) :
        detected \in {detect_date_column(df)}})

(***************************************************************************)
(* Catalogs                                                                *)
(***************************************************************************)
Definition(cols, deps, formula) ==
    [columns |-> cols, dependencies |-> deps, formula |-> formula]

\* the formula "2" of a KPI that needs no column and no other KPI
Constant == <<Literal(Num(2))>>

Catalog(n) ==
    [i \in 1..n |-> [k |-> NameTable[i], v |-> Definition(<<>>, <<>>, Constant)]]
EmptyCatalog == Catalog(NumKpis)

\* a formula that is not a product led by the constant: one entry more
Rewritten(formula) == formula = <<>> \/ formula[1] # Constant[1]

RECURSIVE SumLen(_)
SumLen(d) ==
    IF d = <<>> THEN 0
    ELSE Len(Head(d).v.dependencies) + Len(Head(d).v.columns)
            + (IF Rewritten(Head(d).v.formula) THEN 1 ELSE 0) + SumLen(Tail(d))

\* the catalog file gains one more dependency entry: kpis['dep'] in the formula
DeclareDependency(name, dep) ==
    /\ pc = "load"
    /\ SumLen(kpis) < MaxDecls
    /\ kpis' = Put(kpis, name,
            [Get(kpis, name) EXCEPT !.dependencies = Append(@, dep),
                                    !.formula = @ \o <<Times, KpiRef(dep)>>])
    /\ UNCHANGED unitVars
    /\ UNCHANGED <<pc, dataset, llm_answer, detected_kpis, outcome, calcVars>>

\* the catalog file gains one more required column: df['placeholder'] in the formula
DeclareColumn(name, placeholder) ==
    /\ pc = "load"
    /\ SumLen(kpis) < MaxDecls
    /\ kpis' = Put(kpis, name,
            [Get(kpis, name) EXCEPT !.columns = Append(@, placeholder),
                                    !.formula = @ \o <<Times, DfRef(placeholder)>>])
    /\ UNCHANGED unitVars
    /\ UNCHANGED <<pc, dataset, llm_answer, detected_kpis, outcome, calcVars>>

\* build_dependency_graph(catalog)
ResolveOrder ==
    /\ pc = "load"
    /\ outcome' = build_dependency_graph(kpis)
    /\ pc' = "resolved"
    /\ UNCHANGED unitVars
    /\ UNCHANGED <<kpis, dataset, llm_answer, detected_kpis, calcVars>>

NoFrame == [columns |-> <<>>, dtypes |-> <<>>, rows |-> <<>>]
NoCalculation == <<"<unset>">>

\* no single call under study, no thread in get_embedding_model
NoCall == [fn |-> "none"]

UnitIdle ==
    /\ call = NoCall
    /\ embedding_model = None
    /\ callers = <<>>
    /\ constructions = 0

InitOrder ==
    /\ UnitIdle
    /\ pc = "load"
    /\ kpis = EmptyCatalog
    /\ dataset = NoFrame
    /\ llm_answer = <<>>
    /\ detected_kpis = <<>>
    /\ outcome = NoOutcome
    /\ order_used = <<>>
    /\ calculated_kpis = NoCalculation
    /\ state_error = ErrNone
    /\ evaluations = {}
    /\ executions = {}
    /\ custom_kpi = NoCalculation

NextOrder ==
    \/ \E name \in KpiNames, dep \in KpiNames : DeclareDependency(name, dep)
    \/ ResolveOrder

SpecOrder == InitOrder /\ [][NextOrder]_vars

(***************************************************************************)
(* Matching runs: a catalog, a DataFrame and an answer of the LLM          *)
(***************************************************************************)
pX == <<"x">>
pDate == <<"d", "a", "t", "e">>
Placeholders == {pX, pDate}

cX == <<"X">>
cDate == <<"D", "a", "t", "e">>
cGhost == <<"Y">>           \* a name that is no column of the DataFrame

\* sales on two days of one month, and on two days of two months
Frame(days) ==
    [columns |-> <<cX, cDate>>,
     dtypes |-> <<"int", "object">>,
     rows |-> [r \in DOMAIN days |-> <<r, days[r]>>]]
Frames == {Frame(<<3, 4>>), Frame(<<3, 40>>)}

\* what the LLM may answer: nothing (the call failed), or a mapping
Entry(key, value) == [k |-> key, v |-> value]
LlmAnswers ==
    { <<>>,
      <<Entry(pX, cX)>>,
      <<Entry(pX, cX), Entry(pDate, cDate)>>,
      <<Entry(pX, None), Entry(pDate, cDate)>>,
      <<Entry(pX, cGhost), Entry(pDate, cDate)>> }

\* match_kpis(df.columns, catalog, df)
MatchKpis(frame, answer) ==
    /\ pc = "load"
    /\ llm_answer' = answer
    /\ detected_kpis' = match_kpis(frame.columns, kpis, frame, answer)
    /\ dataset' = MatchConverts(frame.columns, kpis, frame, answer)
    /\ pc' = "matched"
    /\ UNCHANGED unitVars
    /\ UNCHANGED <<kpis, outcome, calcVars>>

InitMatch == InitOrder

NextMatch ==
    \/ \E name \in KpiNames, dep \in KpiNames : DeclareDependency(name, dep)
    \/ \E name \in KpiNames, placeholder \in Placeholders : DeclareColumn(name, placeholder)
    \/ \E frame \in Frames, answer \in LlmAnswers : MatchKpis(frame, answer)

SpecMatch == InitMatch /\ [][NextMatch]_vars

(***************************************************************************)
(* Detection and calculation: KPI_Detection.py, KPI_Calculation.py,        *)
(* business_analyst_agent.py calculate_kpis_node, custom_kpi_calculator.py *)
(***************************************************************************)
\* for name, data in llm_status.items(): if name not in final_kpi_status
RECURSIVE AddMissing(_, _)
AddMissing(final_kpi_status, llm_status) ==
    IF llm_status = <<>> THEN final_kpi_status
    ELSE AddMissing(IF Has(final_kpi_status, Head(llm_status).k) THEN final_kpi_status
                    ELSE Append(final_kpi_status, Head(llm_status)),
                    Tail(llm_status))

\* df.columns = [normalize_column_name(col) for col in df.columns]
RenameColumns(df) == [df EXCEPT !.columns = normalize_columns(@)]

\* match_rate < 0.3
LowMatchRate(kpi_status, combined_kpis) ==
    \/ combined_kpis = <<>>
    \/ 10 * Cardinality({i \in DOMAIN kpi_status : kpi_status[i].v.calculable})
            < 3 * Len(combined_kpis)

NoMeta == [period_type |-> "None", date_col |-> None]
Stored(calc) == [error |-> calc.error, results |-> calc.results, meta |-> calc.meta]
\* state['calculated_kpis'] = {}
Nothing == [error |-> ErrNone, results |-> <<>>, meta |-> NoMeta]

\* the numeric columns and the quoted names of a custom formula
IsNumeric(df, col) == HasColumn(df, col) /\ df.dtypes[ColumnIndex(df, col)] = "int"
ColumnsUsed(formula) == {formula[i].name : i \in {j \in DOMAIN formula : formula[j].t = "df"}}

ColumnsNotFound == "Columns not found"
Disallowed == "Formula contains disallowed operations"
NonNumeric == "Calculation error: Cannot use sum() on non-numeric column"
InvalidValue == "Calculation resulted in invalid value (NaN/Inf). Check for division by zero."
DivisionByZero == "Division by zero error in formula"

\* CustomKPICalculator.validate_formula: the error, ErrNone when valid
validate_formula(df, formula) ==
    IF \E col \in ColumnsUsed(formula) : ~HasColumn(df, col) THEN ColumnsNotFound
    ELSE IF \E i \in DOMAIN formula : formula[i].t = "access" /\ formula[i].val.n = 1
         THEN Disallowed
    ELSE ErrNone

\* CustomKPICalculator.calculate_kpi, sum("col") written as df['col']:
\* [success, value, error, executed]
calculate_kpi(df, formula) ==
    LET invalid == validate_formula(df, formula)
        r == Eval(formula, df, <<>>, FALSE)
        failure(msg, ran) ==
            [success |-> FALSE, value |-> NoneVal, error |-> msg, executed |-> ran]
    IN  IF invalid # ErrNone THEN failure(invalid, FALSE)
        ELSE IF \E col \in ColumnsUsed(formula) : ~IsNumeric(df, col)
             THEN failure(NonNumeric, FALSE)
        ELSE IF r.raised
             THEN failure(IF r.error = "ZeroDivisionError" THEN DivisionByZero
                          ELSE "Calculation error", r.executed)
        ELSE IF r.value.kind \in {"nan", "inf"} THEN failure(InvalidValue, r.executed)
        ELSE [success |-> TRUE, value |-> [r.value EXCEPT !.np = FALSE],
              error |-> ErrNone, executed |-> r.executed]

(***************************************************************************)
(* Runs of the pipeline: a catalog, detection, then one calculation        *)
(***************************************************************************)
PipeKpis == 2       \* KPI definitions in the catalog of a pipeline run
PipeDecls == 2      \* entries declared in that catalog, in total

PipeNames == {NameTable[i] : i \in 1..PipeKpis}
\* placeholders spelled as the columns they stand for, and the date placeholder
PipePlaceholders == {cX, pDate}
PipeAnswers ==
    { <<>>,
      <<Entry(cX, cX)>>,
      <<Entry(cX, cX), Entry(pDate, cDate)>>,
      <<Entry(cX, None), Entry(pDate, cDate)>> }

\* what llm_generate_kpis answers: nothing
GeneratedKpis == { <<>> }

\* formulas a catalog file or a user may hold besides the products: none, a
\* call of a builtin spelled with a blacklisted keyword (__import__('os')...),
\* one spelled without (getattr(...)), a method of an exposed object
\* (df.to_csv('X')), 0 / 0
Missing == <<>>
Shapes ==
    { Missing,
      <<Access("builtin", TRUE)>>,
      <<Access("attribute", FALSE)>>,
      <<Literal(Num(0)), Over, Literal(Num(0))>>,
      <<DfRef(cX), Over, Literal(Num(0))>> }
CustomFormulas ==
    { <<DfRef(cX)>>, <<DfRef(cGhost)>>, <<DfRef(cDate)>>,
      <<DfRef(cX), Over, Literal(Num(0))>>,
      <<Access("builtin", TRUE)>>,
      <<Access("builtin", FALSE)>>,
      <<Access("attribute", FALSE)>> }

\* the catalog file holds another formula for the KPI, its references kept
RewriteFormula(name, shape) ==
    /\ pc = "load"
    /\ SumLen(kpis) < MaxDecls
    /\ ~Rewritten(Get(kpis, name).formula)
    /\ kpis' = Put(kpis, name,
            [Get(kpis, name) EXCEPT !.formula =
                IF shape = Missing THEN Missing ELSE shape \o Tail(@)])
    /\ UNCHANGED unitVars
    /\ UNCHANGED <<pc, dataset, llm_answer, detected_kpis, outcome, calcVars>>

\* detect_kpis_node: KPI_Detection(df, kpis).  The columns are renamed in
\* place, the catalog is matched (phase 1) and, on a low match rate, the KPIs
\* that llm_generate_kpis answers are matched and merged (phase 2).
DetectKpis(frame, answer, llm_kpis) ==
    /\ pc = "load"
    /\ \E renamed \in {RenameColumns(frame)} :
       \E kpi_status \in {match_kpis(renamed.columns, kpis, renamed, answer)} :
       \E matched \in {MatchConverts(renamed.columns, kpis, renamed, answer)} :
            IF LowMatchRate(kpi_status, kpis) /\ llm_kpis # <<>>
            THEN /\ detected_kpis' = AddMissing(kpi_status,
                        match_kpis(renamed.columns, llm_kpis, matched, answer))
                 /\ dataset' = MatchConverts(renamed.columns, llm_kpis, matched, answer)
            ELSE /\ detected_kpis' = kpi_status
                 /\ dataset' = matched
    /\ llm_answer' = answer
    /\ pc' = "detected"
    /\ UNCHANGED unitVars
    /\ UNCHANGED <<kpis, outcome, calcVars>>

\* KPI_Calculation(df, kpi_status, selected_kpis): an exception of
\* build_dependency_graph leaves the function before anything is calculated
KpiCalculation(selected_kpis) ==
    /\ pc = "detected"
    /\ \E filtered_kpis \in {Filter(detected_kpis, selected_kpis)} :
       \E dependency_graph \in {build_dependency_graph(filtered_kpis)} :
            IF dependency_graph.raised
            THEN /\ outcome' = Raised(dependency_graph.error)
                 /\ UNCHANGED <<dataset, order_used, calculated_kpis,
                                evaluations, executions>>
            ELSE \E calc \in {calculate_kpis_temporal(dataset, filtered_kpis,
                                                       dependency_graph.value)} :
                    /\ outcome' = Returned(<<>>)
                    /\ order_used' = dependency_graph.value
                    /\ calculated_kpis' = Stored(calc)
                    /\ dataset' = calc.df
                    /\ evaluations' = calc.evaluated
                    /\ executions' = calc.executed
    /\ pc' = "calculated"
    /\ UNCHANGED unitVars
    /\ UNCHANGED <<kpis, llm_answer, detected_kpis, state_error, custom_kpi>>

\* calculate_kpis_node.  calculate_kpis_temporal raises on no DataFrame of
\* these runs, so the fallback to calculate_kpis and the outer except, which
\* sets state['error'], are not taken.
CalculateKpisNode ==
    /\ pc = "detected"
    /\ \E selected_kpis \in {SelectSeq(detected_kpis, LAMBDA e : e.v.calculable)} :
            IF selected_kpis = <<>>
            THEN /\ calculated_kpis' = Nothing
                 /\ UNCHANGED <<dataset, order_used, evaluations, executions>>
            ELSE \E graph \in {build_dependency_graph(selected_kpis)} :
                 \E order \in {IF graph.raised THEN Keys(selected_kpis) ELSE graph.value} :
                 \E calc_result \in {calculate_kpis_temporal(dataset, selected_kpis, order)} :
                    /\ order_used' = order
                    /\ calculated_kpis' = Stored(calc_result)
                    /\ dataset' = calc_result.df
                    /\ evaluations' = calc_result.evaluated
                    /\ executions' = calc_result.executed
    /\ pc' = "node_done"
    /\ UNCHANGED unitVars
    /\ UNCHANGED <<kpis, llm_answer, detected_kpis, outcome, state_error, custom_kpi>>

\* POST custom KPI: CustomKPICalculator(df).calculate_kpi(formula)
CalculateCustomKpi(formula) ==
    /\ pc = "detected"
    /\ custom_kpi' = calculate_kpi(dataset, formula)
    /\ pc' = "custom"
    /\ UNCHANGED unitVars
    /\ UNCHANGED <<kpis, dataset, llm_answer, detected_kpis, outcome, order_used,
                   calculated_kpis, state_error, evaluations, executions>>

InitPipe ==
    /\ UnitIdle
    /\ pc = "load"
    /\ kpis = Catalog(PipeKpis)
    /\ dataset = NoFrame
    /\ llm_answer = <<>>
    /\ detected_kpis = <<>>
    /\ outcome = NoOutcome
    /\ order_used = <<>>
    /\ calculated_kpis = NoCalculation
    /\ state_error = ErrNone
    /\ evaluations = {}
    /\ executions = {}
    /\ custom_kpi = NoCalculation

NextPipe ==
    \/ \E name \in PipeNames, dep \in PipeNames :
            SumLen(kpis) < PipeDecls /\ DeclareDependency(name, dep)
    \/ \E name \in PipeNames, placeholder \in PipePlaceholders :
            SumLen(kpis) < PipeDecls /\ DeclareColumn(name, placeholder)
    \/ \E name \in PipeNames, shape \in Shapes :
            SumLen(kpis) < PipeDecls /\ RewriteFormula(name, shape)
    \/ \E frame \in Frames, answer \in PipeAnswers, generated \in GeneratedKpis :
            DetectKpis(frame, answer, generated)
    \/ \E selected_kpis \in SUBSET PipeNames : KpiCalculation(selected_kpis)
    \/ CalculateKpisNode
    \/ \E formula \in CustomFormulas : CalculateCustomKpi(formula)

SpecPipe == InitPipe /\ [][NextPipe]_vars

(***************************************************************************)
(* Properties of the dependency order                                      *)
(***************************************************************************)
\* the pairs <<a, b>> with b listed in a's dependencies
DependencyEdges(catalog) ==
    UNION {{<<catalog[i].k, dep>> : dep \in Range(catalog[i].v.dependencies)} :
            i \in DOMAIN catalog}

RECURSIVE Closure(_, _)
Closure(R, n) ==
    IF n = 0 THEN R
    ELSE Closure(R \cup {<<x[1][1], x[2][2]>> :
                            x \in {y \in R \X R : y[1][2] = y[2][1]}}, n - 1)

HasCycle(catalog) ==
    \E p \in Closure(DependencyEdges(catalog), Len(catalog)) : p[1] = p[2]

DependenciesDeclared(catalog) ==
    \A p \in DependencyEdges(catalog) : p[2] \in KeySet(catalog)

Position(s, x) == CHOOSE i \in DOMAIN s : s[i] = x

IsPermutationOf(s, set) ==
    /\ Len(s) = Cardinality(set)
    /\ Range(s) = set

DependenciesFirst(order, catalog) ==
    \A p \in DependencyEdges(catalog) :
        Position(order, p[2]) < Position(order, p[1])

\* C1: on a catalog without a dependency cycle whose dependencies all name
\* catalog KPIs, build_dependency_graph returns every KPI name exactly once,
\* every dependency before the KPI that lists it (also when listed twice).
C1_OrderIsTopological ==
    (pc = "resolved" /\ ~HasCycle(kpis) /\ DependenciesDeclared(kpis)) =>
        /\ ~outcome.raised
        /\ IsPermutationOf(outcome.value, KeySet(kpis))
        /\ DependenciesFirst(outcome.value, kpis)

\* an acyclic catalog, ordered, in which a KPI lists the same dependency twice
\* and another KPI depends on that KPI
C1_Witness ==
    /\ pc = "resolved"
    /\ ~HasCycle(kpis)
    /\ ~outcome.raised
    /\ \E i \in DOMAIN kpis : \E dep \in KeySet(kpis) :
            /\ Count(kpis[i].v.dependencies, dep) = 2
            /\ \E j \in DOMAIN kpis : kpis[i].k \in Range(kpis[j].v.dependencies)

(***************************************************************************)
(* Properties of the matching stage                                        *)
(***************************************************************************)
\* the fuzzy layer's scorer (rapidfuzz token_set_ratio), by the one property
\* used here: two texts one of whose word sets contains the other's score 100
RECURSIVE Words(_, _)
Words(s, word) ==
    IF s = <<>> THEN (IF word = <<>> THEN {} ELSE {word})
    ELSE IF Head(s) = " "
         THEN (IF word = <<>> THEN {} ELSE {word}) \cup Words(Tail(s), <<>>)
         ELSE Words(Tail(s), Append(word, Head(s)))

token_set_ratio(a, b) ==
    LET wa == Words(a, <<>>)
        wb == Words(b, <<>>)
    IN  IF wa # {} /\ wb # {} /\ (wa \subseteq wb \/ wb \subseteq wa) THEN 100 ELSE 0

DefaultThreshold == 55

FuzzyMatched(placeholder, column_names) ==
    \E c \in DOMAIN column_names :
        token_set_ratio(normalize_column_name(placeholder),
                        normalize_column_name(column_names[c])) >= DefaultThreshold

CatalogBase == {i \in DOMAIN kpis : IsBase(kpis[i].v)}
CatalogDerived == {i \in DOMAIN kpis : ~IsBase(kpis[i].v)}

\* C5: match_kpis never reports a derived KPI calculable=true when one of its
\* declared dependencies is calculable=false or absent in the same result.
C5_DerivedNeedsDependencies ==
    pc = "matched" =>
        \A i \in DOMAIN detected_kpis :
            (detected_kpis[i].v.calculable /\ ~IsBase(detected_kpis[i].v.kpi_info)) =>
                \A j \in DOMAIN detected_kpis[i].v.kpi_info.dependencies :
                    LET dep == detected_kpis[i].v.kpi_info.dependencies[j]
                    IN  Has(detected_kpis, dep) /\ Get(detected_kpis, dep).calculable

\* matched: a derived KPI with two dependencies, one calculable and one not,
\* is not reported calculable
C5_Witness ==
    /\ pc = "matched"
    /\ \E i \in CatalogDerived :
        /\ \E j \in DOMAIN kpis[i].v.dependencies :
                LET dep == kpis[i].v.dependencies[j]
                IN  Has(detected_kpis, dep) /\ ~Get(detected_kpis, dep).calculable
        /\ \E j \in DOMAIN kpis[i].v.dependencies :
                LET dep == kpis[i].v.dependencies[j]
                IN  Has(detected_kpis, dep) /\ Get(detected_kpis, dep).calculable
        /\ ~Has(detected_kpis, kpis[i].k)

\* C6 as claimed: a base KPI whose every placeholder has a column scoring at or
\* above the threshold in the fuzzy layer is reported calculable=true, whatever
\* the LLM mapping answered.
C6_FuzzyAloneSuffices ==
    pc = "matched" =>
        \A i \in CatalogBase :
            (\A j \in DOMAIN kpis[i].v.columns :
                    FuzzyMatched(kpis[i].v.columns[j], dataset.columns)) =>
                Get(detected_kpis, kpis[i].k).calculable

\* C7: match_kpis keeps every base KPI of the catalog, calculable or not, with a
\* binding (possibly null) for each of its placeholders, and reports no derived
\* KPI that is not calculable.
C7_DerivedDroppedBaseKept ==
    pc = "matched" =>
        /\ \A i \in CatalogBase :
                /\ Has(detected_kpis, kpis[i].k)
                /\ KeySet(Get(detected_kpis, kpis[i].k).matched_columns)
                        = Range(kpis[i].v.columns)
                /\ Get(detected_kpis, kpis[i].k).calculable
                        = (\A e \in Range(Get(detected_kpis, kpis[i].k).matched_columns) :
                                e.v # None)
        /\ \A i \in CatalogDerived :
                Has(detected_kpis, kpis[i].k) => Get(detected_kpis, kpis[i].k).calculable

\* matched: a base KPI kept with calculable=false, one placeholder bound and one
\* null, next to a derived KPI that was dropped
C7_Witness ==
    /\ pc = "matched"
    /\ \E i \in CatalogBase :
        /\ Has(detected_kpis, kpis[i].k)
        /\ ~Get(detected_kpis, kpis[i].k).calculable
        /\ \E e \in Range(Get(detected_kpis, kpis[i].k).matched_columns) : e.v = None
        /\ \E e \in Range(Get(detected_kpis, kpis[i].k).matched_columns) : e.v # None
    /\ \E i \in CatalogDerived : ~Has(detected_kpis, kpis[i].k)

(***************************************************************************)
(* Properties of the calculation stage                                     *)
(***************************************************************************)
\* a calculation has returned
Calculated == pc = "node_done" \/ (pc = "calculated" /\ ~outcome.raised)

References(formula, placeholder) ==
    \E i \in DOMAIN formula :
        formula[i].t = "df" /\ Lower(formula[i].name) = Lower(placeholder)
Accesses(formula) == \E i \in DOMAIN formula : formula[i].t = "access"

\* the rows of one period of the dataset, as calculate_kpis_temporal cuts them
PeriodFrame(period) ==
    PeriodRows(add_period_column(dataset, calculated_kpis.meta.date_col,
                                 calculated_kpis.meta.period_type), period)

\* C2 as claimed: on a catalog with a dependency cycle build_dependency_graph
\* fails with the circular-dependency error, and a KPI_Calculation call on
\* what was detected from that catalog raises and evaluates no formula.
C2_CycleStopsCalculation ==
    HasCycle(kpis) =>
        /\ build_dependency_graph(kpis).raised
        /\ build_dependency_graph(kpis).error = CircularDependency
        /\ pc = "calculated" => (outcome.raised /\ evaluations = {})

\* C3 as claimed: when the catalog's dependencies are circular, the
\* calculate_kpis node sets the state error, evaluates no KPI and stores no
\* per-period result.
C3_OrderingFailureSurfaced ==
    (pc = "node_done" /\ HasCycle(kpis)) =>
        /\ state_error # ErrNone
        /\ evaluations = {}
        /\ calculated_kpis.results = <<>>

C8_UnmatchedPlaceholderFails ==
    Calculated =>
        \A i \in DOMAIN calculated_kpis.results :
            LET kpi_results == calculated_kpis.results[i].v
            IN  \A j \in DOMAIN kpi_results :
                    LET status == Get(detected_kpis, kpi_results[j].k)
                    IN  (\E e \in Range(status.matched_columns) :
                            /\ e.v = None
                            /\ References(status.kpi_info.formula, e.k))
                        => /\ ~kpi_results[j].v.success
                           /\ kpi_results[j].v.error # ErrNone

\* calculated: a KPI with an unmatched placeholder that its formula references,
\* on a dataset that has a column spelled like the placeholder
C8_Witness ==
    /\ Calculated
    /\ \E i \in DOMAIN calculated_kpis.results :
        LET kpi_results == calculated_kpis.results[i].v
        IN  \E j \in DOMAIN kpi_results :
                LET status == Get(detected_kpis, kpi_results[j].k)
                IN  /\ \E e \in Range(status.matched_columns) :
                            /\ e.v = None
                            /\ References(status.kpi_info.formula, e.k)
                            /\ HasColumn(dataset, e.k)
                    /\ ~kpi_results[j].v.success

\* C9 as claimed: no formula, of the catalog or custom, performs an access,
\* and a formula that attempts one ends in a failure record.
C9_AccessNeverExecuted ==
    /\ executions = {}
    /\ pc = "custom" => ~custom_kpi.executed
    /\ Calculated =>
        \A i \in DOMAIN calculated_kpis.results :
            \A e \in Range(calculated_kpis.results[i].v) :
                Accesses(Get(detected_kpis, e.k).kpi_info.formula) => ~e.v.success

\* C10 as claimed: in every period a KPI is treated as calculable exactly when
\* match_kpis on the rows of that period reports it calculable.
C10_MatchingPerPeriod ==
    (Calculated /\ calculated_kpis.error = ErrNone) =>
        \A i \in DOMAIN calculated_kpis.results :
            LET period == calculated_kpis.results[i].k
                kpi_results == calculated_kpis.results[i].v
                rematched == match_kpis(dataset.columns, kpis, PeriodFrame(period),
                                        llm_answer)
            IN  \A e \in Range(kpi_results) :
                    (e.v.error # NotCalculable) = StatusCalculable(rematched, e.k)

\* the value of a record is NaN or an infinity
InvalidNumber(value) == value.kind \in {"nan", "inf"}

\* C11 as claimed: no record, of calculate_kpis or of
\* CustomKPICalculator.calculate_kpi, has success=true with a value that is
\* NaN or an infinity; a division by zero ends in success=false, an error and
\* the value None.
C11_InvalidNumberFails ==
    /\ pc = "custom" =>
            /\ ~(custom_kpi.success /\ InvalidNumber(custom_kpi.value))
            /\ ~custom_kpi.success =>
                    (custom_kpi.value = NoneVal /\ custom_kpi.error # ErrNone)
    /\ Calculated =>
        \A i \in DOMAIN calculated_kpis.results :
            \A e \in Range(calculated_kpis.results[i].v) :
                /\ ~(e.v.success /\ InvalidNumber(e.v.value))
                /\ ~e.v.success => (e.v.value = NoneVal /\ e.v.error # ErrNone)

(***************************************************************************)
(* The matching layers: fuzzy, semantic and LLM.                           *)
(***************************************************************************)
LayerDecls == 1     \* entries declared in a catalog of the layer runs
ScoreThreshold == 75

\* process.extractOne(kpi_col, available_columns, scorer=fuzz.token_set_ratio):
\* the first column of the best score
extractOne(kpi_col, available_columns) ==
    LET score(c) == token_set_ratio(kpi_col, available_columns[c])
        best == Max({score(c) : c \in DOMAIN available_columns})
    IN  [match |-> available_columns[Min({c \in DOMAIN available_columns :
                                            score(c) = best})],
         score |-> best]

\* the semantic_match_fn argument: None, or a function and what it does when
\* it is called
NoFunction == [given |-> FALSE, raised |-> FALSE, value |-> None]
Answers(sem_match) == [given |-> TRUE, raised |-> FALSE, value |-> sem_match]
Raises == [given |-> TRUE, raised |-> TRUE, value |-> None]
SemanticError == "semantic_match_fn raised"

\* what a call of match_column did: its result, and whether it called the
\* semantic function
Layered(result, called) ==
    [raised |-> result.raised, value |-> result.value, error |-> result.error,
     called |-> called]

\* match_column: extractOne of no column returns None, whose unpacking raises
match_column(kpi_col, available_columns, threshold, semantic_match_fn) ==
    IF available_columns = <<>> THEN Layered(Raised("TypeError"), FALSE)
    ELSE LET best == extractOne(kpi_col, available_columns)
         IN  IF best.score >= threshold THEN Layered(Returned(best.match), FALSE)
             ELSE IF semantic_match_fn.given
                  THEN IF semantic_match_fn.raised
                       THEN Layered(Raised(SemanticError), TRUE)
                       ELSE Layered(Returned(IF Truthy(semantic_match_fn.value)
                                             THEN semantic_match_fn.value ELSE None),
                                    TRUE)
                  ELSE Layered(Returned(None), FALSE)

\* what gemini.generate_text_only does: it raises, or answers text that
\* json.loads rejects, or answers a mapping
Unparsable == [raised |-> FALSE, value |-> <<>>, error |-> "not JSON"]
LlmResponses ==
    { Raised("GeminiClient"), Unparsable,
      Returned(<<Entry(pX, cX)>>), Returned(<<Entry(pX, cX), Entry(pDate, cDate)>>) }

\* llm_intelligent_column_mapping: every exception of the call and of
\* json.loads ends in the empty mapping
llm_intelligent_column_mapping(response) ==
    IF response.raised \/ response = Unparsable THEN <<>> ELSE response.value

\* the calls of match_column under study
ColumnCalls ==
    [fn : {"match_column"},
     kpi_col : {cX, cDate, cGhost, pX},
     available_columns : {<<>>, <<cX>>, <<cDate, cX>>},
     threshold : {DefaultThreshold, ScoreThreshold, 100},
     semantic_match_fn : {NoFunction, Raises, Answers(None), Answers(cX)}]

MatchColumn ==
    /\ pc = "load"
    /\ call.fn = "match_column"
    /\ outcome' = match_column(call.kpi_col, call.available_columns,
                               call.threshold, call.semantic_match_fn)
    /\ pc' = "column"
    /\ UNCHANGED <<kpis, dataset, llm_answer, detected_kpis, calcVars>>
    /\ UNCHANGED unitVars

\* match_kpis with the LLM layer behaving as response
MatchKpisLlm(frame, response) ==
    /\ pc = "load"
    /\ call.fn = "none"
    /\ \E llm_mapping \in {llm_intelligent_column_mapping(response)} :
            /\ llm_answer' = llm_mapping
            /\ detected_kpis' = match_kpis(frame.columns, kpis, frame, llm_mapping)
            /\ dataset' = MatchConverts(frame.columns, kpis, frame, llm_mapping)
    /\ outcome' = response
    /\ pc' = "matched"
    /\ UNCHANGED <<kpis, calcVars>>
    /\ UNCHANGED unitVars

InitLayers ==
    /\ call \in ColumnCalls \cup {NoCall}
    /\ embedding_model = None
    /\ callers = <<>>
    /\ constructions = 0
    /\ pc = "load"
    /\ kpis = Catalog(PipeKpis)
    /\ dataset = NoFrame
    /\ llm_answer = <<>>
    /\ detected_kpis = <<>>
    /\ outcome = NoOutcome
    /\ order_used = <<>>
    /\ calculated_kpis = NoCalculation
    /\ state_error = ErrNone
    /\ evaluations = {}
    /\ executions = {}
    /\ custom_kpi = NoCalculation

NextLayers ==
    \/ MatchColumn
    \/ \E name \in PipeNames, dep \in PipeNames :
            call.fn = "none" /\ SumLen(kpis) < LayerDecls /\ DeclareDependency(name, dep)
    \/ \E name \in PipeNames, placeholder \in Placeholders :
            call.fn = "none" /\ SumLen(kpis) < LayerDecls /\ DeclareColumn(name, placeholder)
    \/ \E frame \in Frames, response \in LlmResponses : MatchKpisLlm(frame, response)

SpecLayers == InitLayers /\ [][NextLayers]_vars

\* the external layer of the call failed
LayerFailed ==
    \/ pc = "column" /\ call.semantic_match_fn.raised
    \/ pc = "matched" /\ (outcome.raised \/ outcome = Unparsable)

\* C12 as claimed: when the semantic function raises, or the LLM call raises
\* or answers text that cannot be parsed, match_column and match_kpis return:
\* the layer counts as 'no match' and every base KPI of the catalog has a
\* status.
C12_LayerFailureContained ==
    /\ (pc = "column" /\ call.available_columns # <<>>
            /\ call.semantic_match_fn.raised) =>
                ~outcome.raised
    /\ (pc = "matched" /\ LayerFailed) =>
        /\ llm_answer = <<>>
        /\ \A i \in CatalogBase : Has(detected_kpis, kpis[i].k)

(***************************************************************************)
(* determine_period_type on its own.                                       *)
(***************************************************************************)
MaxSpan == 91       \* the longest span, in days, between two sales
FirstDays == {0, 5}

\* sales on the day first and span days later, in either row order, the date
\* column already converted as calculate_kpis_temporal hands it over
SpanFrame(first, span, reversed) ==
    ConvertToDatetime(
        Frame(IF reversed THEN <<first + span, first>> ELSE <<first, first + span>>),
        cDate)

PeriodCalls ==
    {[fn |-> "determine_period_type", span |-> span,
      df |-> SpanFrame(first, span, reversed)] :
        first \in FirstDays, span \in 0..MaxSpan, reversed \in BOOLEAN}

DeterminePeriodType ==
    /\ pc = "load"
    /\ call.fn = "determine_period_type"
    /\ outcome' = Returned(determine_period_type(call.df, cDate))
    /\ pc' = "period"
    /\ UNCHANGED <<kpis, dataset, llm_answer, detected_kpis, calcVars>>
    /\ UNCHANGED unitVars

InitPeriod ==
    /\ call \in PeriodCalls
    /\ embedding_model = None
    /\ callers = <<>>
    /\ constructions = 0
    /\ pc = "load"
    /\ kpis = <<>>
    /\ dataset = NoFrame
    /\ llm_answer = <<>>
    /\ detected_kpis = <<>>
    /\ outcome = NoOutcome
    /\ order_used = <<>>
    /\ calculated_kpis = NoCalculation
    /\ state_error = ErrNone
    /\ evaluations = {}
    /\ executions = {}
    /\ custom_kpi = NoCalculation

NextPeriod == DeterminePeriodType

SpecPeriod == InitPeriod /\ [][NextPeriod]_vars

\* C15: determine_period_type answers "WoW" exactly when the span between the
\* earliest and the latest date is under 30 whole days, and "MoM" otherwise:
\* 10 and 29 days are weekly, 30 and 90 days are monthly.
C15_PeriodTypeBySpan ==
    pc = "period" =>
        /\ (outcome.value = "WoW") = (call.span < 30)
        /\ (outcome.value = "MoM") = (call.span >= 30)
        /\ call.span \in {10, 29} => outcome.value = "WoW"
        /\ call.span \in {30, 90} => outcome.value = "MoM"

\* a dataset that spans exactly 30 days was judged monthly
C15_Witness == pc = "period" /\ call.span = 30 /\ outcome.value = "MoM"

(***************************************************************************)
(* What the calls leave of the caller's DataFrame.                         *)
(***************************************************************************)
FrameDecls == 2     \* entries declared in the catalog of these runs

\* a DataFrame of two rows with the given header
Table(columns, dtypes, cells) ==
    [columns |-> columns, dtypes |-> dtypes,
     rows |-> [r \in DOMAIN cells |-> <<r, cells[r]>>]]

\* text dates; timestamps; a header as the file spells it and no date; a date
\* column of which one cell in two is no date; no date column at all
StudyFrames ==
    { Frame(<<3, 4>>),
      ConvertToDatetime(Frame(<<3, 40>>), cDate),
      Table(<<pX, cGhost>>, <<"int", "int">>, <<3, 4>>),
      Frame(<<NaT, 4>>),
      Table(<<cX, cGhost>>, <<"int", "int">>, <<3, 4>>) }

DatasetCalls == [fn : {"dataset"}, df : StudyFrames]

\* how the library treats the period of a missing date in add_period_column:
\* NaT.start_time raises AttributeError, or the period is NaT
NatStarts == {"raises", "NaT"}

HasNaT(df, col) ==
    \E r \in DOMAIN df.rows : df.rows[r][ColumnIndex(df, col)] = NaT

\* calculate_kpis(df, kpi_status, list(kpi_status))
CalculateKpis ==
    /\ pc = "matched"
    /\ \E calc \in {calculate_kpis(dataset, detected_kpis, Keys(detected_kpis))} :
            /\ calculated_kpis' =
                    [error |-> ErrNone, results |-> <<[k |-> 0, v |-> calc.results]>>,
                     meta |-> NoMeta]
            /\ evaluations' = {<<0, n>> : n \in calc.evaluated}
            /\ executions' = {<<0, n>> : n \in calc.executed}
    /\ order_used' = Keys(detected_kpis)
    /\ outcome' = Returned(<<>>)
    /\ pc' = "kpis_done"
    /\ UNCHANGED <<kpis, dataset, llm_answer, detected_kpis, state_error, custom_kpi>>
    /\ UNCHANGED unitVars

\* calculate_kpis_temporal(df, kpi_status, list(kpi_status))
CalculateKpisTemporal(nat_start) ==
    /\ pc = "matched"
    /\ \E detected \in {detect_date_column(dataset)} :
            IF /\ Truthy(detected.col)
               /\ HasNaT(detected.df, detected.col)
               /\ nat_start = "raises"
            THEN /\ outcome' = Raised("AttributeError")
                 /\ dataset' = detected.df
                 /\ UNCHANGED <<order_used, calculated_kpis, evaluations, executions>>
            ELSE \E calc \in {calculate_kpis_temporal(dataset, detected_kpis,
                                                       Keys(detected_kpis))} :
                    /\ outcome' = Returned(<<>>)
                    /\ order_used' = Keys(detected_kpis)
                    /\ calculated_kpis' = Stored(calc)
                    /\ dataset' = calc.df
                    /\ evaluations' = calc.evaluated
                    /\ executions' = calc.executed
    /\ pc' = "temporal"
    /\ UNCHANGED <<kpis, llm_answer, detected_kpis, state_error, custom_kpi>>
    /\ UNCHANGED unitVars

InitFrame ==
    /\ call \in DatasetCalls
    /\ embedding_model = None
    /\ callers = <<>>
    /\ constructions = 0
    /\ pc = "load"
    /\ kpis = Catalog(PipeKpis)
    /\ dataset = NoFrame
    /\ llm_answer = <<>>
    /\ detected_kpis = <<>>
    /\ outcome = NoOutcome
    /\ order_used = <<>>
    /\ calculated_kpis = NoCalculation
    /\ state_error = ErrNone
    /\ evaluations = {}
    /\ executions = {}
    /\ custom_kpi = NoCalculation

NextFrame ==
    \/ \E name \in PipeNames, dep \in PipeNames :
            SumLen(kpis) < FrameDecls /\ DeclareDependency(name, dep)
    \/ \E name \in PipeNames, placeholder \in PipePlaceholders :
            SumLen(kpis) < FrameDecls /\ DeclareColumn(name, placeholder)
    \/ \E answer \in PipeAnswers : MatchKpis(call.df, answer)
    \/ \E answer \in PipeAnswers, generated \in GeneratedKpis :
            DetectKpis(call.df, answer, generated)
    \/ CalculateKpis
    \/ \E nat_start \in NatStarts : CalculateKpisTemporal(nat_start)

SpecFrame == InitFrame /\ [][NextFrame]_vars

\* C13 as claimed: after match_kpis, KPI_Detection, calculate_kpis or
\* calculate_kpis_temporal has returned or raised, the caller's DataFrame has
\* the column names, the column types and the cells it had before the call.
C13_DatasetReadOnly ==
    pc \in {"matched", "detected", "kpis_done", "temporal"} => dataset = call.df

\* a column that the detection is specified to accept: its name hints at a
\* date and more than half of its cells are dates, or it holds timestamps
UsableDateColumn(df, c) ==
    \/ /\ DateHinted(df.columns[c])
       /\ 2 * Cardinality({r \in DOMAIN df.rows :
                ToDatetime(df.dtypes[c], df.rows[r][c]) # NaT}) > Len(df.rows)
    \/ df.dtypes[c] = "datetime"

\* C16 as claimed: on a DataFrame without a usable date column
\* calculate_kpis_temporal does not raise, evaluates no formula and returns
\* the 'no date column' error with both meta fields null and no period.
C16_NoDateColumnReported ==
    (/\ pc = "temporal"
     /\ \A c \in DOMAIN call.df.columns : ~UsableDateColumn(call.df, c)) =>
        /\ ~outcome.raised
        /\ evaluations = {}
        /\ calculated_kpis.error = NoDateColumn
        /\ calculated_kpis.meta = NoMeta
        /\ calculated_kpis.results = <<>>

(***************************************************************************)
(* get_embedding_model called from several threads.  A thread may be       *)
(* switched out between any two of: the test of the global, the            *)
(* construction, the store to the global, the load for the return.         *)
(***************************************************************************)
NumThreads == 3     \* threads that call get_embedding_model
Threads == 1..NumThreads

\* the n-th SentenceTransformer constructed in the process
Instance(n) == <<"SentenceTransformer", n>>

Caller(at, model) == [at |-> at, model |-> model]

\* what the threads of get_embedding_model leave alone
engineVars == <<call, pc, kpis, dataset, llm_answer, detected_kpis, outcome, calcVars>>

\* get_embedding_model() is called
Enter(t) ==
    /\ callers[t].at = "idle"
    /\ callers' = [callers EXCEPT ![t].at = "test"]
    /\ UNCHANGED <<embedding_model, constructions>>
    /\ UNCHANGED engineVars

\* if _embedding_model is None
TestGlobal(t) ==
    /\ callers[t].at = "test"
    /\ callers' = [callers EXCEPT
            ![t].at = IF embedding_model = None THEN "construct" ELSE "return"]
    /\ UNCHANGED <<embedding_model, constructions>>
    /\ UNCHANGED engineVars

\* SentenceTransformer('sentence-transformers/all-MiniLM-L6-v2')
Construct(t) ==
    /\ callers[t].at = "construct"
    /\ constructions' = constructions + 1
    /\ callers' = [callers EXCEPT ![t] = Caller("store", Instance(constructions + 1))]
    /\ UNCHANGED embedding_model
    /\ UNCHANGED engineVars

\* _embedding_model = ...
StoreGlobal(t) ==
    /\ callers[t].at = "store"
    /\ embedding_model' = callers[t].model
    /\ callers' = [callers EXCEPT ![t].at = "return"]
    /\ UNCHANGED constructions
    /\ UNCHANGED engineVars

\* return _embedding_model
ReturnGlobal(t) ==
    /\ callers[t].at = "return"
    /\ callers' = [callers EXCEPT ![t] = Caller("done", embedding_model)]
    /\ UNCHANGED <<embedding_model, constructions>>
    /\ UNCHANGED engineVars

InitEmbed ==
    /\ call = NoCall
    /\ embedding_model = None
    /\ callers = [t \in Threads |-> Caller("idle", None)]
    /\ constructions = 0
    /\ pc = "load"
    /\ kpis = <<>>
    /\ dataset = NoFrame
    /\ llm_answer = <<>>
    /\ detected_kpis = <<>>
    /\ outcome = NoOutcome
    /\ order_used = <<>>
    /\ calculated_kpis = NoCalculation
    /\ state_error = ErrNone
    /\ evaluations = {}
    /\ executions = {}
    /\ custom_kpi = NoCalculation

NextEmbed ==
    \/ \E t \in Threads : Enter(t)
    \/ \E t \in Threads : TestGlobal(t)
    \/ \E t \in Threads : Construct(t)
    \/ \E t \in Threads : StoreGlobal(t)
    \/ \E t \in Threads : ReturnGlobal(t)

SpecEmbed == InitEmbed /\ [][NextEmbed]_vars

\* C14 as claimed: whatever the interleaving of the callers, the model is
\* constructed once in the process and every caller that has returned holds
\* that one instance.
C14_ConstructedOnce ==
    /\ constructions <= 1
    /\ \A t \in Threads :
        callers[t].at = "done" =>
            /\ constructions = 1
            /\ callers[t].model = Instance(1)

(***************************************************************************)
(* Properties of dependency substitution.                                  *)
(***************************************************************************)
\* in the status dict, b is a calculable derived KPI without columns whose
\* only dependency is the base KPI a and whose formula is 2 * kpis['a']
DoublesBase(b, a) ==
    /\ StatusCalculable(detected_kpis, b)
    /\ IsBase(Get(detected_kpis, a).kpi_info)
    /\ Get(detected_kpis, b).kpi_info.columns = <<>>
    /\ Get(detected_kpis, b).kpi_info.dependencies = <<a>>
    /\ Get(detected_kpis, b).kpi_info.formula = <<Literal(Num(2)), Times, KpiRef(a)>>

\* C17 as claimed: with A a base KPI and B = 2 * kpis['A'] depending on A, in
\* every period where A is recorded with success and the value v, B is
\* recorded with success and the value 2 * v; where A is recorded as a
\* failure, B is not recorded with success.
C17_DependencyValueSubstituted ==
    Calculated =>
        \A i \in DOMAIN calculated_kpis.results :
            LET kpi_results == calculated_kpis.results[i].v
            IN  \A ea \in Range(kpi_results), eb \in Range(kpi_results) :
                    DoublesBase(eb.k, ea.k) =>
                        IF ea.v.success
                        THEN /\ eb.v.success
                             /\ eb.v.value.kind = ea.v.value.kind
                             /\ ea.v.value.kind = "num" =>
                                    eb.v.value.n = 2 * ea.v.value.n
                        ELSE ~eb.v.success

(***************************************************************************)
(* normalize_column_name on its own.                                       *)
(***************************************************************************)
MaxChars == 3       \* characters of a column name
Alphabet == {"a", "B", "1", " ", "_", "-", "!"}

\* every column name of at most n characters
RECURSIVE Names(_)
Names(n) ==
    IF n = 0 THEN {<<>>}
    ELSE Names(n - 1) \cup
            {Append(name, c) : name \in {m \in Names(n - 1) : Len(m) = n - 1},
                               c \in Alphabet}

NameCalls == [fn : {"normalize_column_name"}, col : Names(MaxChars)]

NormalizeColumnName ==
    /\ pc = "load"
    /\ call.fn = "normalize_column_name"
    /\ outcome' = Returned(normalize_column_name(call.col))
    /\ pc' = "normalized"
    /\ UNCHANGED <<kpis, dataset, llm_answer, detected_kpis, calcVars>>
    /\ UNCHANGED unitVars

InitNames ==
    /\ call \in NameCalls
    /\ embedding_model = None
    /\ callers = <<>>
    /\ constructions = 0
    /\ pc = "load"
    /\ kpis = <<>>
    /\ dataset = NoFrame
    /\ llm_answer = <<>>
    /\ detected_kpis = <<>>
    /\ outcome = NoOutcome
    /\ order_used = <<>>
    /\ calculated_kpis = NoCalculation
    /\ state_error = ErrNone
    /\ evaluations = {}
    /\ executions = {}
    /\ custom_kpi = NoCalculation

NextNames == NormalizeColumnName

SpecNames == InitNames /\ [][NextNames]_vars

\* C18 as claimed: normalizing a normalized column name changes nothing,
\* whatever letters, digits, spaces, underscores, hyphens and other
\* punctuation the name is made of.
C18_NormalizeIdempotent ==
    pc = "normalized" => normalize_column_name(outcome.value) = outcome.value

(***************************************************************************)
(* Loading and combining the two catalog files.                            *)
(***************************************************************************)
MaxItems == 2       \* KPI items in a catalog file
FileNames == {NameTable[1], NameTable[3], NameTable[4]}
FileDefinitions ==
    { Definition(<<>>, <<>>, Constant),
      Definition(<<pX>>, <<>>, <<DfRef(pX)>>) }

\* a catalog file in the list format: items with a name, in file order; a
\* missing file is the empty list
RECURSIVE Files(_)
Files(n) ==
    IF n = 0 THEN {<<>>}
    ELSE Files(n - 1) \cup
            {Append(file, [k |-> name, v |-> info]) :
                file \in {f \in Files(n - 1) : Len(f) = n - 1},
                name \in FileNames, info \in FileDefinitions}

\* load_kpis_from_yaml: kpis[item['name']] = item, for every item of the file
RECURSIVE LoadItems(_, _)
LoadItems(items, loaded) ==
    IF items = <<>> THEN loaded
    ELSE LoadItems(Tail(items), Put(loaded, Head(items).k, Head(items).v))

load_kpis_from_yaml(items) == LoadItems(items, <<>>)

\* the merge with the built-in definition kept for a name of both files
export_kpis_general_wins(general_file, custom_file) ==
    Merge(load_kpis_from_yaml(custom_file), load_kpis_from_yaml(general_file))

\* export_kpis: {**general_kpis, **custom_kpis}
export_kpis(general_file, custom_file) ==
    Merge(load_kpis_from_yaml(general_file), load_kpis_from_yaml(custom_file))

ExportCalls == [fn : {"export_kpis"}, general : Files(MaxItems), custom : Files(MaxItems)]

ExportKpis ==
    /\ pc = "load"
    /\ call.fn = "export_kpis"
    /\ kpis' = export_kpis(call.general, call.custom)
    /\ pc' = "exported"
    /\ UNCHANGED <<dataset, llm_answer, detected_kpis, outcome, calcVars>>
    /\ UNCHANGED unitVars

InitExport ==
    /\ call \in ExportCalls
    /\ embedding_model = None
    /\ callers = <<>>
    /\ constructions = 0
    /\ pc = "load"
    /\ kpis = <<>>
    /\ dataset = NoFrame
    /\ llm_answer = <<>>
    /\ detected_kpis = <<>>
    /\ outcome = NoOutcome
    /\ order_used = <<>>
    /\ calculated_kpis = NoCalculation
    /\ state_error = ErrNone
    /\ evaluations = {}
    /\ executions = {}
    /\ custom_kpi = NoCalculation

NextExport == ExportKpis

SpecExport == InitExport /\ [][NextExport]_vars

\* the definition a file gives a name: the last item of that name
LastOf(file, name) ==
    file[CHOOSE i \in DOMAIN file :
            /\ file[i].k = name
            /\ \A j \in DOMAIN file : file[j].k = name => j <= i].v
NamesOf(file) == {file[i].k : i \in DOMAIN file}

\* C19: the catalog export_kpis returns has exactly the names of the built-in
\* file and of the user's file, each once; a name of both files has the
\* user's definition, and a name of one file has that file's definition.
C19_CustomOverridesGeneral ==
    pc = "exported" =>
        /\ KeySet(kpis) = NamesOf(call.general) \cup NamesOf(call.custom)
        /\ Cardinality(KeySet(kpis)) = Len(kpis)
        /\ \A name \in KeySet(kpis) :
            Get(kpis, name) =
                IF name \in NamesOf(call.custom) THEN LastOf(call.custom, name)
                ELSE LastOf(call.general, name)

\* exported: a name of both files with two different definitions, a name of
\* the built-in file only and a name of the user's file only
C19_Witness ==
    /\ pc = "exported"
    /\ \E name \in NamesOf(call.general) \cap NamesOf(call.custom) :
            LastOf(call.general, name) # LastOf(call.custom, name)
    /\ NamesOf(call.general) \ NamesOf(call.custom) # {}
    /\ NamesOf(call.custom) \ NamesOf(call.general) # {}

(***************************************************************************)
(* Properties of derived KPIs.                                             *)
(***************************************************************************)
\* the name puts the KPI under the time-window policy
TimeWindowed(kpi_name) ==
    StartsWith(Lower(kpi_name), Monthly) \/ StartsWith(Lower(kpi_name), Weekly)

\* the dependency is reported calculable by the run
ReportedCalculable(kpi_name) ==
    Has(detected_kpis, kpi_name) /\ Get(detected_kpis, kpi_name).calculable

\* the placeholder of a derived KPI is bound by a calculable base KPI of the
\* run or spelled like a column of the dataset
PlaceholderResolved(placeholder) ==
    \/ \E e \in Range(detected_kpis) :
            /\ IsBase(e.v.kpi_info)
            /\ e.v.calculable
            /\ Has(e.v.matched_columns, placeholder)
            /\ Get(e.v.matched_columns, placeholder) # None
    \/ normalize_column_name(placeholder) \in Range(normalize_columns(dataset.columns))

\* C20 as claimed: a derived KPI outside the time-window policy is reported
\* calculable exactly when every dependency it lists is reported calculable
\* by the same run, base or derived, and every placeholder of its own is
\* resolved.
C20_DerivedCalculableIffDependencies ==
    pc = "matched" =>
        \A i \in CatalogDerived :
            ~TimeWindowed(kpis[i].k) =>
                (ReportedCalculable(kpis[i].k)
                    <=> /\ \A d \in Range(kpis[i].v.dependencies) : ReportedCalculable(d)
                        /\ \A p \in Range(kpis[i].v.columns) : PlaceholderResolved(p))

(***************************************************************************)
(* Properties of the statuses.                                             *)
(***************************************************************************)
\* the status binds the placeholder to a column
Bound(status, placeholder) ==
    /\ Has(status.matched_columns, placeholder)
    /\ Get(status.matched_columns, placeholder) # None

\* C21: in every status of a matching run, calculable=true implies that every
\* placeholder of the KPI is bound to a column, and a base KPI is calculable
\* exactly when all its placeholders are bound.
C21_CalculableMeansAllBound ==
    pc = "matched" =>
        \A e \in Range(detected_kpis) :
            /\ e.v.calculable =>
                    \A p \in Range(e.v.kpi_info.columns) : Bound(e.v, p)
            /\ IsBase(e.v.kpi_info) =>
                    (e.v.calculable <=>
                        \A p \in Range(e.v.kpi_info.columns) : Bound(e.v, p))

\* matched: a base KPI with two placeholders of which one is bound and one is
\* not, reported not calculable, and a base KPI with a bound placeholder,
\* reported calculable
C21_Witness ==
    /\ pc = "matched"
    /\ \E e \in Range(detected_kpis) :
            /\ IsBase(e.v.kpi_info)
            /\ ~e.v.calculable
            /\ \E p, q \in Range(e.v.kpi_info.columns) : Bound(e.v, p) /\ ~Bound(e.v, q)
    /\ \E e \in Range(detected_kpis) :
            /\ IsBase(e.v.kpi_info)
            /\ e.v.calculable
            /\ e.v.kpi_info.columns # <<>>

\* the cadence the name of the KPI begins with
Cadence(kpi_name) == IF StartsWith(Lower(kpi_name), Monthly) THEN "month" ELSE "week"

\* the periods of a cadence that the dates of a column of the dataset fall in
PeriodsIn(col, cadence) ==
    {PeriodOf(ToDatetime(dataset.dtypes[ColumnIndex(dataset, col)], cell), cadence) :
        cell \in {dataset.rows[r][ColumnIndex(dataset, col)] : r \in DOMAIN dataset.rows}
                    \ {NaT}}

\* the status binds a placeholder spelled with "date" to a column of the dataset
DateBound(status) ==
    \E e \in Range(status.matched_columns) :
        /\ Contains(Lower(e.k), DateWord)
        /\ e.v # None
        /\ HasColumn(dataset, e.v)

\* C22 as claimed: a KPI, base or derived, whose name begins with a weekly or
\* monthly token and that has a date column bound is not reported calculable
\* when the dates of that column fall in fewer than 2 periods of its cadence.
C22_TimeWindowGate ==
    pc = "matched" =>
        \A e \in Range(detected_kpis) :
            (/\ TimeWindowed(e.k)
             /\ DateBound(e.v)
             /\ Cardinality(PeriodsIn(DateMatch(e.v.matched_columns), Cadence(e.k))) < 2)
                => ~e.v.calculable

(***************************************************************************)
(* Properties of match_column.                                             *)
(***************************************************************************)
\* the columns of the call whose fuzzy score is the best and reaches the
\* threshold
FuzzyAccepted ==
    LET score(c) == token_set_ratio(call.kpi_col, call.available_columns[c])
    IN  {call.available_columns[c] : c \in
            {c \in DOMAIN call.available_columns :
                /\ score(c) >= call.threshold
                /\ \A d \in DOMAIN call.available_columns : score(d) <= score(c)}}

\* C23 as claimed: match_column returns a best-scoring column without calling
\* the semantic function when the best fuzzy score reaches the threshold;
\* otherwise the column an injected semantic function accepts; and None,
\* without raising, when no layer accepts.
C23_LayersFirstSuccessWins ==
    pc = "column" =>
        /\ ~outcome.raised
        /\ IF FuzzyAccepted # {}
           THEN outcome.value \in FuzzyAccepted /\ ~outcome.called
           ELSE IF /\ call.semantic_match_fn.given
                   /\ ~call.semantic_match_fn.raised
                   /\ Truthy(call.semantic_match_fn.value)
                THEN outcome.value = call.semantic_match_fn.value
                ELSE outcome.value = None

(***************************************************************************)
(* Detection on files whose headers normalize_column_name rewrites: the    *)
(* columns the LLM mapping binds.                                          *)
(***************************************************************************)
OracleDecls == 2    \* entries declared in the catalog of these runs

\* headers as a file spells them
h1a == <<"1", "a">>
hx == <<"x">>
OracleHeaders == {cX, hx, h1a}

\* the LLM is shown the renamed columns: it answers nothing, one of them, or
\* a name that is no column
OracleCalls ==
    [fn : {"oracle"},
     df : {Table(<<h, cDate>>, <<"int", "object">>, <<3, 40>>) : h \in OracleHeaders},
     answer : { <<>> } \cup
              {<<Entry(cX, col)>> :
                    col \in {normalize_column_name(h) : h \in OracleHeaders}
                                \cup {cGhost, None}}]

InitOracle ==
    /\ call \in OracleCalls
    /\ embedding_model = None
    /\ callers = <<>>
    /\ constructions = 0
    /\ pc = "load"
    /\ kpis = Catalog(PipeKpis)
    /\ dataset = NoFrame
    /\ llm_answer = <<>>
    /\ detected_kpis = <<>>
    /\ outcome = NoOutcome
    /\ order_used = <<>>
    /\ calculated_kpis = NoCalculation
    /\ state_error = ErrNone
    /\ evaluations = {}
    /\ executions = {}
    /\ custom_kpi = NoCalculation

NextOracle ==
    \/ \E name \in PipeNames, dep \in PipeNames :
            SumLen(kpis) < OracleDecls /\ DeclareDependency(name, dep)
    \/ \E name \in PipeNames, placeholder \in PipePlaceholders :
            SumLen(kpis) < OracleDecls /\ DeclareColumn(name, placeholder)
    \/ \E generated \in GeneratedKpis : DetectKpis(call.df, call.answer, generated)

SpecOracle == InitOracle /\ [][NextOracle]_vars

\* C24 as claimed: every non-null column that the LLM mapping binds to a
\* placeholder of a base KPI, as stored after normalize_column_name, is the
\* name of a column of the dataset on which the KPI is evaluated.
C24_OracleBindsDatasetColumns ==
    pc = "detected" =>
        \A e \in Range(detected_kpis) :
            IsBase(e.v.kpi_info) =>
                \A m \in Range(e.v.matched_columns) :
                    m.v # None => HasColumn(dataset, m.v)

(***************************************************************************)
(* calculate_kpis_temporal and calculate_kpis turn by turn: the locals of  *)
(* the two loops are the fields of the running call.                       *)
(***************************************************************************)
TurnDecls == 2      \* entries declared in the catalog of these runs

\* the locals of calculate_kpis_temporal when its loop over the periods
\* begins, with those of the calculate_kpis call it is in (turn 0: in none)
Activation(df, available_kpis, dependency_order, periods) ==
    [fn |-> "calculate_kpis_temporal", df |-> df, available_kpis |-> available_kpis,
     dependency_order |-> dependency_order, periods |-> periods,
     period |-> 0, turn |-> 0, kpi_results |-> <<>>, results |-> <<>>]

\* the locals at the entry of calculate_kpis for the next period, the result
\* set of the last period carried over
EnterPeriodCarrying(running) ==
    [running EXCEPT !.period = @ + 1, !.turn = 1]

\* the locals at the entry of calculate_kpis for the next period:
\* kpi_results = {}
EnterPeriod(running) ==
    [running EXCEPT !.period = @ + 1, !.turn = 1, !.kpi_results = <<>>]

\* KPI_Calculation up to the loop over the periods
EnterCalculation(selected_kpis) ==
    /\ pc = "detected"
    /\ \E filtered_kpis \in {Filter(detected_kpis, selected_kpis)} :
       \E dependency_graph \in {build_dependency_graph(filtered_kpis)} :
       \E detected \in {detect_date_column(dataset)} :
            IF dependency_graph.raised
            THEN /\ outcome' = Raised(dependency_graph.error)
                 /\ pc' = "calculated"
                 /\ UNCHANGED <<dataset, order_used, calculated_kpis, call>>
            ELSE IF ~Truthy(detected.col)
            THEN /\ outcome' = Returned(<<>>)
                 /\ pc' = "calculated"
                 /\ order_used' = dependency_graph.value
                 /\ calculated_kpis' = [error |-> NoDateColumn, results |-> <<>>,
                                        meta |-> NoMeta]
                 /\ dataset' = detected.df
                 /\ UNCHANGED call
            ELSE \E period_type \in {determine_period_type(detected.df, detected.col)} :
                 \E with_period \in {add_period_column(detected.df, detected.col,
                                                       period_type)} :
                    /\ call' = Activation(with_period, filtered_kpis,
                                    dependency_graph.value,
                                    Sorted({with_period.rows[r][Len(with_period.columns)] :
                                                r \in DOMAIN with_period.rows}))
                    /\ calculated_kpis' =
                            [error |-> ErrNone, results |-> <<>>,
                             meta |-> [period_type |-> period_type,
                                       date_col |-> detected.col]]
                    /\ order_used' = dependency_graph.value
                    /\ dataset' = detected.df
                    /\ pc' = "periods"
                    /\ UNCHANGED outcome
    /\ UNCHANGED <<embedding_model, callers, constructions>>
    /\ UNCHANGED <<kpis, llm_answer, detected_kpis, state_error, evaluations,
                   executions, custom_kpi>>

\* for period in periods: calculate_kpis(df_period, ...) is entered
NextPeriodTurn ==
    /\ pc = "periods"
    /\ call.period < Len(call.periods)
    /\ call' = EnterPeriod(call)
    /\ pc' = "turns"
    /\ UNCHANGED <<embedding_model, callers, constructions>>
    /\ UNCHANGED <<kpis, dataset, llm_answer, detected_kpis, outcome, calcVars>>

\* one turn of for kpi_name in dependency_order
Turn ==
    /\ pc = "turns"
    /\ call.turn <= Len(call.dependency_order)
    /\ \E kpi_name \in {call.dependency_order[call.turn]} :
       \E one \in {CalculateOne(PeriodRows(call.df, call.periods[call.period]),
                                call.available_kpis, kpi_name, call.kpi_results)} :
            /\ call' = [call EXCEPT !.kpi_results = Put(@, kpi_name, one.result),
                                    !.turn = @ + 1]
            /\ evaluations' = evaluations \cup
                    (IF one.evaluated THEN {<<call.periods[call.period], kpi_name>>}
                     ELSE {})
            /\ executions' = executions \cup
                    (IF one.executed THEN {<<call.periods[call.period], kpi_name>>}
                     ELSE {})
    /\ UNCHANGED <<embedding_model, callers, constructions>>
    /\ UNCHANGED <<pc, kpis, dataset, llm_answer, detected_kpis, outcome, order_used,
                   calculated_kpis, state_error, custom_kpi>>

\* return kpi_results; results[str(period)] = kpi_out
StorePeriod ==
    /\ pc = "turns"
    /\ call.turn > Len(call.dependency_order)
    /\ call' = [call EXCEPT !.results = Put(@, call.periods[call.period],
                                            call.kpi_results),
                            !.turn = 0]
    /\ pc' = "periods"
    /\ UNCHANGED <<embedding_model, callers, constructions>>
    /\ UNCHANGED <<kpis, dataset, llm_answer, detected_kpis, outcome, calcVars>>

\* results["meta"] = ...; return results
ReturnPeriods ==
    /\ pc = "periods"
    /\ call.period = Len(call.periods)
    /\ calculated_kpis' = [calculated_kpis EXCEPT !.results = call.results]
    /\ outcome' = Returned(<<>>)
    /\ pc' = "calculated"
    /\ UNCHANGED <<call, embedding_model, callers, constructions>>
    /\ UNCHANGED <<kpis, dataset, llm_answer, detected_kpis, order_used, state_error,
                   evaluations, executions, custom_kpi>>

TurnFrames == Frames \cup {Table(<<cX, cGhost>>, <<"int", "int">>, <<3, 4>>)}

InitTurns == InitPipe

NextTurns ==
    \/ \E name \in PipeNames, dep \in PipeNames :
            SumLen(kpis) < TurnDecls /\ DeclareDependency(name, dep)
    \/ \E name \in PipeNames, placeholder \in PipePlaceholders :
            SumLen(kpis) < TurnDecls /\ DeclareColumn(name, placeholder)
    \/ \E frame \in TurnFrames, answer \in PipeAnswers, generated \in GeneratedKpis :
            DetectKpis(frame, answer, generated)
    \/ \E selected_kpis \in SUBSET PipeNames : EnterCalculation(selected_kpis)
    \/ NextPeriodTurn
    \/ Turn
    \/ StorePeriod
    \/ ReturnPeriods

SpecTurns == InitTurns /\ [][NextTurns]_vars

\* the turn-by-turn run returns what calculate_kpis_temporal returns on the
\* DataFrame and the selection it was given
TurnsAgree ==
    (pc = "calculated" /\ ~outcome.raised) =>
        \E calc \in {calculate_kpis_temporal(dataset,
                        Filter(detected_kpis, Range(order_used)), order_used)} :
            /\ calculated_kpis = Stored(calc)
            /\ evaluations = calc.evaluated
            /\ executions = calc.executed

\* inside calculate_kpis the records written so far are those of the KPIs
\* whose turn has passed, in that order, one each
WrittenAtTurn ==
    pc = "turns" =>
        Keys(call.kpi_results) = SubSeq(call.dependency_order, 1, call.turn - 1)

\* what is stored for a period is what calculate_kpis gives on the rows of
\* that period alone
PeriodsApart ==
    pc \in {"periods", "turns"} =>
        \A e \in Range(call.results) :
            e.v = calculate_kpis(PeriodRows(call.df, e.k), call.available_kpis,
                                 call.dependency_order).results

\* a step inside one calculate_kpis run adds one record and leaves the
\* records already written as they are
RecordsKept ==
    (pc = "turns" /\ pc' = "turns") =>
        /\ Len(call'.kpi_results) = Len(call.kpi_results) + 1
        /\ \A i \in DOMAIN call.kpi_results : call'.kpi_results[i] = call.kpi_results[i]

\* C25: in one calculate_kpis run every KPI's record is written once, at its
\* turn in the dependency order, and not modified afterwards; the run of each
\* period starts from an empty result set and stores what the period's rows
\* alone give.
C25_RecordsWrittenOnce ==
    /\ [](WrittenAtTurn /\ PeriodsApart)
    /\ [][RecordsKept]_vars

\* in the second period a KPI got a record that differs from the one the
\* first period stored for it
C25_Witness ==
    /\ pc = "turns"
    /\ call.period = 2
    /\ Len(call.results) = 1
    /\ \E i \in DOMAIN call.kpi_results :
            /\ call.kpi_results[i].v.success
            /\ call.results[1].v[i] # call.kpi_results[i]

(***************************************************************************)
(* build_dependency_graph on a selection of the catalog                    *)
(***************************************************************************)
\* build_dependency_graph({name: data for name, data in kpis.items()
\*                         if name in selected_kpis})
ResolveSelection(selected_kpis) ==
    /\ pc = "load"
    /\ \E filtered_kpis \in {Filter(kpis, selected_kpis)} :
            /\ call' = [fn |-> "build_dependency_graph", kpis |-> filtered_kpis]
            /\ outcome' = build_dependency_graph(filtered_kpis)
    /\ pc' = "selected"
    /\ UNCHANGED <<embedding_model, callers, constructions>>
    /\ UNCHANGED <<kpis, dataset, llm_answer, detected_kpis, calcVars>>

InitSelect == InitOrder

NextSelect ==
    \/ \E name \in KpiNames, dep \in KpiNames : DeclareDependency(name, dep)
    \/ \E selected_kpis \in SUBSET KpiNames : ResolveSelection(selected_kpis)

SpecSelect == InitSelect /\ [][NextSelect]_vars

\* C26 as claimed: build_dependency_graph raises the circular-dependency
\* error only when the dependencies among the KPIs it is given contain a
\* cycle, also when a dependency of a given KPI is not among them.
C26_CircularOnlyOnCycle ==
    (pc = "selected" /\ outcome.raised) => HasCycle(call.kpis)

(***************************************************************************)
(* The placeholder substitution of calculate_kpis on its own               *)
(***************************************************************************)
MaxRefs == 2        \* column references in a formula

\* products of up to n references df['placeholder']
RECURSIVE Products(_)
Products(n) ==
    IF n = 1 THEN {<<DfRef(p)>> : p \in Placeholders}
    ELSE Products(n - 1) \cup
         {f \o <<Times, DfRef(p)>> : f \in Products(n - 1), p \in Placeholders}

\* matched_columns of a KPI that declares one or both placeholders, in either
\* order, each bound to a column of the DataFrame or to None
Bindings ==
    {<<Entry(p, col)>> : p \in Placeholders, col \in {cX, cDate, None}} \cup
    UNION {{<<Entry(p, col), Entry(q, other)>> :
                q \in Placeholders \ {p},
                col \in {cX, cDate, None}, other \in {cX, cDate, None}} :
           p \in Placeholders}

SubstitutionCalls ==
    [fn : {"substitute"}, formula : Products(MaxRefs), matched_columns : Bindings]

\* the placeholder loop of calculate_kpis
Substitute ==
    /\ pc = "load"
    /\ call.fn = "substitute"
    /\ outcome' = Returned(SubstitutePlaceholders(call.formula, call.matched_columns))
    /\ pc' = "substituted"
    /\ UNCHANGED unitVars
    /\ UNCHANGED <<kpis, dataset, llm_answer, detected_kpis, calcVars>>

InitSubstitution ==
    /\ call \in SubstitutionCalls
    /\ embedding_model = None
    /\ callers = <<>>
    /\ constructions = 0
    /\ pc = "load"
    /\ kpis = <<>>
    /\ dataset = NoFrame
    /\ llm_answer = <<>>
    /\ detected_kpis = <<>>
    /\ outcome = NoOutcome
    /\ order_used = <<>>
    /\ calculated_kpis = NoCalculation
    /\ state_error = ErrNone
    /\ evaluations = {}
    /\ executions = {}
    /\ custom_kpi = NoCalculation

NextSubstitution == Substitute

SpecSubstitution == InitSubstitution /\ [][NextSubstitution]_vars

\* every reference to a bound placeholder replaced by its column, all at once
Simultaneous(formula, matched_columns) ==
    [i \in DOMAIN formula |->
        IF /\ formula[i].t \in {"df", "kpi"}
           /\ \E e \in Range(matched_columns) :
                    Lower(e.k) = Lower(formula[i].name) /\ Truthy(e.v)
        THEN [formula[i] EXCEPT !.name =
                (CHOOSE e \in Range(matched_columns) :
                    Lower(e.k) = Lower(formula[i].name) /\ Truthy(e.v)).v]
        ELSE formula[i]]

\* C27 as claimed: the placeholder loop of calculate_kpis turns every
\* reference to a placeholder into a reference to the column matched to it,
\* as one simultaneous substitution, whatever the order of matched_columns
\* and also when a matched column is spelled like another placeholder.
C27_SimultaneousSubstitution ==
    pc = "substituted" =>
        outcome.value = Simultaneous(call.formula, call.matched_columns)

\* C28: every record that calculate_kpis stores has error None when success
\* is true, and value None with an error when success is false; a KPI that is
\* not calculable or has no formula has success false and its formula was
\* not evaluated.
C28_RecordsWellFormed ==
    Calculated =>
        \A per \in Range(calculated_kpis.results) :
            \A e \in Range(per.v) :
                /\ e.v.success => e.v.error = ErrNone
                /\ ~e.v.success => (e.v.value = NoneVal /\ e.v.error # ErrNone)
                /\ (\/ ~StatusCalculable(detected_kpis, e.k)
                    \/ Get(detected_kpis, e.k).kpi_info.formula = Missing)
                        => (~e.v.success /\ <<per.k, e.k>> \notin evaluations)

\* calculated: in one period a calculable KPI without formula has a failure
\* record and was not evaluated, and another KPI has a success record
C28_Witness ==
    /\ Calculated
    /\ \E per \in Range(calculated_kpis.results) :
        \E e \in Range(per.v) : \E g \in Range(per.v) :
            /\ StatusCalculable(detected_kpis, e.k)
            /\ Get(detected_kpis, e.k).kpi_info.formula = Missing
            /\ e.v.error = MissingFormula
            /\ <<per.k, e.k>> \notin evaluations
            /\ g.v.success
            /\ g.v.error = ErrNone

(***************************************************************************)
(* Detection with generated KPIs.  llm_generate_kpis answers KPI           *)
(* definitions (name, formula, required placeholders, dependencies), which *)
(* KPI_Detection matches like a catalog and merges.                        *)
(***************************************************************************)
MergeDecls == 2     \* entries declared in the catalog of these runs

\* what llm_generate_kpis may answer: nothing; a KPI named like one of the
\* catalog; that KPI and a new one that depends on it; a new KPI on a column
GeneratedCatalogs ==
    { <<>>,
      <<Entry(NameTable[1], Definition(<<>>, <<>>, Constant))>>,
      <<Entry(NameTable[1], Definition(<<>>, <<>>, Constant)),
        Entry(NameTable[3], Definition(<<>>, <<NameTable[1]>>,
                                       Constant \o <<Times, KpiRef(NameTable[1])>>))>>,
      <<Entry(NameTable[3], Definition(<<cX>>, <<>>,
                                       Constant \o <<Times, DfRef(cX)>>))>> }

InitMerge == InitPipe

NextMerge ==
    \/ \E name \in PipeNames, dep \in PipeNames :
            SumLen(kpis) < MergeDecls /\ DeclareDependency(name, dep)
    \/ \E name \in PipeNames, placeholder \in PipePlaceholders :
            SumLen(kpis) < MergeDecls /\ DeclareColumn(name, placeholder)
    \/ \E frame \in Frames, answer \in PipeAnswers, generated \in GeneratedCatalogs :
            DetectKpis(frame, answer, generated)

SpecMerge == InitMerge /\ [][NextMerge]_vars

\* C29 as claimed: in the kpi_status that KPI_Detection returns, every
\* dependency declared by a calculable KPI is a KPI of the map that is
\* calculable.
C29_CalculableDependenciesPresent ==
    pc = "detected" =>
        \A e \in Range(detected_kpis) :
            e.v.calculable =>
                \A dep \in Range(GetDependencies(e.v.kpi_info)) :
                    Has(detected_kpis, dep) /\ Get(detected_kpis, dep).calculable

(***************************************************************************)
(* The agent: business_analyst_agent.py create_agent, run_full_pipeline.   *)
(* pc is the node that runs next; the running invoke holds current_step,   *)
(* the insights text, the nodes visited and those whose except clause ran. *)
(* Whether the body of a node raises depends on the file, the catalog      *)
(* files and the services it calls: it is an input of the node's action.   *)
(***************************************************************************)
EntryPoint == "ingest"

\* workflow.add_edge(...)
Edges ==
    { <<"ingest", "propose_cleaning">>,
      <<"propose_cleaning", "apply_cleaning">>,
      <<"apply_cleaning", "load_kpis">>,
      <<"load_kpis", "detect_kpis">>,
      <<"detect_kpis", "calculate_kpis">>,
      <<"calculate_kpis", "extract_trends">>,
      <<"extract_trends", "generate_insights">>,
      <<"generate_insights", "END">> }

Successor(node) == CHOOSE m \in {e[2] : e \in Edges} : <<node, m>> \in Edges

\* the except clause of a node that records nothing
NoFailureText(node) == ErrNone

\* state['error'] = f"... failed: {str(e)}" of the node's except clause
FailureText(node) ==
    CASE node = "ingest" -> "Ingestion failed"
      [] node = "propose_cleaning" -> "Cleaning proposal failed"
      [] node = "apply_cleaning" -> "Cleaning execution failed"
      [] node = "load_kpis" -> "KPI loading failed"
      [] node = "detect_kpis" -> "KPI detection failed"
      [] node = "calculate_kpis" -> "KPI calculation failed"
      [] node = "extract_trends" -> "Trend extraction failed"
      [] node = "generate_insights" -> "Insights generation failed"

\* a node function: try: state['current_step'] = node; body
\* except Exception: state['error'] = ...; state['current_step'] = 'error'
\* return state, and the edge out of the node
RunNode(node, raised, insights) ==
    /\ pc = node
    /\ call' = [call EXCEPT !.current_step = IF raised THEN "error" ELSE node,
                            !.insights = insights,
                            !.visited = Append(@, node),
                            !.failed = IF raised THEN @ \cup {node} ELSE @]
    /\ state_error' = IF raised THEN FailureText(node) ELSE state_error
    /\ pc' = Successor(node)
    /\ UNCHANGED <<embedding_model, callers, constructions>>
    /\ UNCHANGED <<kpis, dataset, llm_answer, detected_kpis, outcome, order_used,
                   calculated_kpis, evaluations, executions, custom_kpi>>

\* ingest_node raises on an empty CSV
IngestNode == RunNode("ingest", dataset.rows = <<>>, call.insights)
ProposeCleaningNode(raised) == RunNode("propose_cleaning", raised, call.insights)
ApplyCleaningNode(raised) == RunNode("apply_cleaning", raised, call.insights)
LoadKpisNode(raised) == RunNode("load_kpis", raised, call.insights)
DetectKpisNode(raised) == RunNode("detect_kpis", raised, call.insights)
\* the failures of the ordering and of the temporal calculation are caught
\* inside the node; only what escapes them reaches the node's except clause
CalculateKpisAgentNode(raised) == RunNode("calculate_kpis", raised, call.insights)
ExtractTrendsNode(raised) == RunNode("extract_trends", raised, call.insights)
\* a failure of the Gemini call is caught inside the node and written to
\* state['insights'] only
GenerateInsightsNode(ending) ==
    RunNode("generate_insights", ending = "raised",
            CASE ending = "raised" -> "Error"
              [] ending = "gemini failed" -> "Insights generation error"
              [] ending = "generated" -> "generated")

InsightEndings == {"generated", "gemini failed", "raised"}

\* a CSV with rows and one without
AgentFrames == {Frame(<<3, 40>>), [Frame(<<3, 40>>) EXCEPT !.rows = <<>>]}

\* run_full_pipeline: initial_state, agent.invoke
InitAgent ==
    /\ call = [fn |-> "invoke", current_step |-> "start", insights |-> "",
               visited |-> <<>>, failed |-> {}]
    /\ embedding_model = None
    /\ callers = <<>>
    /\ constructions = 0
    /\ pc = EntryPoint
    /\ kpis = <<>>
    /\ dataset \in AgentFrames
    /\ llm_answer = <<>>
    /\ detected_kpis = <<>>
    /\ outcome = NoOutcome
    /\ order_used = <<>>
    /\ calculated_kpis = NoCalculation
    /\ state_error = ErrNone
    /\ evaluations = {}
    /\ executions = {}
    /\ custom_kpi = NoCalculation

NextAgent ==
    \/ IngestNode
    \/ \E raised \in BOOLEAN : ProposeCleaningNode(raised)
    \/ \E raised \in BOOLEAN : ApplyCleaningNode(raised)
    \/ \E raised \in BOOLEAN : LoadKpisNode(raised)
    \/ \E raised \in BOOLEAN : DetectKpisNode(raised)
    \/ \E raised \in BOOLEAN : CalculateKpisAgentNode(raised)
    \/ \E raised \in BOOLEAN : ExtractTrendsNode(raised)
    \/ \E ending \in InsightEndings : GenerateInsightsNode(ending)

SpecAgent == InitAgent /\ [][NextAgent]_vars

\* invoke runs the node the graph is at until it is at END
SpecAgentFair == SpecAgent /\ WF_vars(NextAgent)

NodeOrder ==
    <<"ingest", "propose_cleaning", "apply_cleaning", "load_kpis", "detect_kpis",
      "calculate_kpis", "extract_trends", "generate_insights">>

\* the nodes visited so far are the first nodes of the fixed order; at the
\* end all eight were visited, and the error is set if the except clause of
\* any node ran
VisitedInOrder ==
    /\ call.visited = SubSeq(NodeOrder, 1, Len(call.visited))
    /\ pc = "END" => /\ call.visited = NodeOrder
                     /\ call.failed # {} => state_error # ErrNone

\* a recorded error stays recorded
ErrorKept == state_error # ErrNone => state_error' # ErrNone

====
